---- MODULE Spec2Model ----
(***************************************************************************)
(* Model of package cli: the option parser (src/options.go, the current    *)
(* version of the file: lines 525-1161) and the resolution of subcommands  *)
(* by Parse and Run (src/command.go).  Strings are sequences of            *)
(* one-character strings, so that prefixes, the split at '=' and the       *)
(* characters of a short-option cluster are computed as the code computes  *)
(* them.  Argument indices are 0-based as in the Go code; args[i] of the   *)
(* code is args[i + 1] here.                                               *)
(***************************************************************************)
EXTENDS Integers, Sequences, FiniteSets, TLC

VARIABLES options, args, i, errList, pc, n, err, calls, passes, visited, vals

\* the state of a call of ParseOptions
ovars == <<options, args, i, errList, pc, n, err, calls, passes, visited, vals>>

\* Run(root, cmdline) and the Parse(root, cmdline) it calls: the chain
\* (commands), the command of the current level (cmd, as the path of
\* subcommand indices that leads to it from the root), the count and the
\* error of Parse (pn, perr), the position in the two functions (ppc), the
\* option parsing done at each level (levels), the invocations of Exec
\* (execs) and the error Run returns (rerr)
VARIABLES root, cmdline, commands, cmd, pn, perr, ppc, levels, execs, rerr

pvars == <<root, cmdline, commands, cmd, pn, perr, ppc, levels, execs, rerr>>

\* formatText(w, s, lineWidth, indent): the text s (ftext), the width it
\* was called with (fwidth), the width in use and the indent, the lexer l
\* (lx), column, what was written to w (out), the position in the
\* function (fpc), the error it returns (ferr); as
\* history, the tokens nextToken returned (ftokens) and the numbers of the
\* output lines written by the tVerbatim case (verbatims)
VARIABLES ftext, fwidth, lineWidth, indent, lx, column, out, fpc, ferr,
          ftokens, verbatims

fvars == <<ftext, fwidth, lineWidth, indent, lx, column, out, fpc, ferr,
           ftokens, verbatims>>

\* cmd.WriteDoc(w), which writes to out: the command documented (dcmd), the
\* position in the function (dpc), its count i of the sections written (di)
\* and, as history, the sections with the place of their header in out and
\* the options that UsageOptions listed
VARIABLES dcmd, dpc, di, sections, listed

dvars == <<dcmd, dpc, di, sections, listed>>

\* the help options: the package variable helpFlag and, as history, the
\* calls of Exec in which the documentation was printed (docs) and the
\* argument lists of the calls of Run that have returned (past)
VARIABLES helpFlag, docs, past

hvars == <<helpFlag, docs, past>>

vars == <<ovars, pvars, fvars, dvars, hvars>>

(* ------------------------------ bounds --------------------------------- *)

\* longest argument list drawn in Init
MaxArgs == 2
\* number of scanning passes that do not advance the argument index that the
\* model follows before it stops following the (endless) loop
MaxSpin == 2

(* ------------------------------ strings -------------------------------- *)

Min(S) == CHOOSE x \in S : \A y \in S : x <= y

\* byte values of the characters that occur in the modelled names and tokens
Code(c) ==
    CASE c = "-" -> 45 [] c = "1" -> 49 [] c = "=" -> 61
      [] c = "a" -> 97 [] c = "b" -> 98 [] c = "d" -> 100 [] c = "e" -> 101
      [] c = "f" -> 102 [] c = "g" -> 103 [] c = "h" -> 104 [] c = "i" -> 105
      [] c = "l" -> 108 [] c = "m" -> 109 [] c = "n" -> 110 [] c = "o" -> 111
      [] c = "p" -> 112 [] c = "r" -> 114 [] c = "s" -> 115 [] c = "t" -> 116
      [] c = "u" -> 117 [] c = "v" -> 118 [] c = "y" -> 121 [] OTHER -> 0

\* strings.HasPrefix(s, prefix)
HasPrefix(s, prefix) ==
    /\ Len(prefix) <= Len(s)
    /\ SubSeq(s, 1, Len(prefix)) = prefix

\* variant of IndexByte: the index of the last c in s
LastIndexByte(s, c) ==
    LET hits == {k \in 1..Len(s) : s[k] = c}
    IN  IF hits = {} THEN -1 ELSE (CHOOSE x \in hits : \A y \in hits : x >= y) - 1

\* strings.IndexByte(s, c): 0-based index of the first c in s, -1 if none
IndexByte(s, c) ==
    LET hits == {k \in 1..Len(s) : s[k] = c}
    IN  IF hits = {} THEN -1 ELSE Min(hits) - 1

\* s[from:to] of Go (0-based, to exclusive)
Slice(s, from, to) == SubSeq(s, from + 1, to)

\* a < b for Go strings (bytewise lexicographic order)
RECURSIVE StrLess(_, _)
StrLess(a, b) ==
    IF b = <<>> THEN FALSE
    ELSE IF a = <<>> THEN TRUE
    ELSE IF Code(a[1]) # Code(b[1]) THEN Code(a[1]) < Code(b[1])
    ELSE StrLess(Tail(a), Tail(b))

\* insertion of x into the sorted sequence s (after the elements not greater)
RECURSIVE InsertSorted(_, _)
InsertSorted(s, x) ==
    IF s = <<>> THEN <<x>>
    ELSE IF StrLess(x, s[1]) THEN <<x>> \o s
    ELSE <<s[1]>> \o InsertSorted(Tail(s), x)

\* sort.Strings(s)
RECURSIVE SortStrings(_)
SortStrings(s) ==
    IF s = <<>> THEN <<>>
    ELSE InsertSorted(SortStrings(SubSeq(s, 1, Len(s) - 1)), s[Len(s)])

(* ------------------------------ errors --------------------------------- *)

Nil == [type |-> "nil"]

unrecognized == <<"u", "n", "r", "e", "c", "o", "g", "n", "i", "z", "e", "d">>

\* &OptionError{Option: option, Msg: ..., Wrapped: wrapped}; the message is
\* kept as the name of its format plus the text formatted into it
OptionError(option, msg, text, wrapped) ==
    [type |-> "OptionError", Option |-> option, Msg |-> msg, Text |-> text,
     Wrapped |-> wrapped]

unrecognizedOptionError(arg) ==
    OptionError(unrecognized, "unrecognized option", arg, Nil)

\* errorList.Flatten
Flatten(list) ==
    IF Len(list) = 0 THEN Nil
    ELSE IF Len(list) = 1 THEN list[1]
    ELSE [type |-> "errorList", list |-> list]

\* &CommandError{Name: name, Message: ..., Wrapped: wrapped}; the message
\* is kept as the name of its format ("" if empty) plus the text formatted
\* into it
CommandError(name, message, text, wrapped) ==
    [type |-> "CommandError", Name |-> name, Message |-> message,
     Text |-> text, Wrapped |-> wrapped]

unrecognizedCommand(arg) ==
    CommandError(unrecognized, "unrecognized command", arg, Nil)

\* variant of Unwrap: an error list unwraps to nothing
UnwrapNoList(e) ==
    CASE e.type = "OptionError" -> e.Wrapped
      [] e.type = "CommandError" -> e.Wrapped
      [] OTHER -> Nil

\* the Unwrap method of an error value: OptionError.Unwrap,
\* errorList.Unwrap, CommandError.Unwrap; nil for an error without one
Unwrap(e) ==
    CASE e.type = "OptionError" -> e.Wrapped
      [] e.type = "errorList" ->
            IF Len(e.list) <= 1 THEN Nil ELSE Flatten(Tail(e.list))
      [] e.type = "CommandError" -> e.Wrapped
      [] OTHER -> Nil

\* errors.Is(e, target) with the Is methods of OptionError and errorList.
\* The targets are freshly built values, so that no error is identical
\* (==) to one.
RECURSIVE errorsIs(_, _)
errorsIs(e, target) ==
    IF e = Nil \/ target = Nil THEN e = target
    ELSE LET is ==
                CASE e.type = "OptionError" ->
                        IF target.type = "OptionError"
                        THEN e.Option = target.Option
                        ELSE errorsIs(e.Wrapped, target)
                  [] e.type = "errorList" ->
                        IF target.type = "errorList"
                        THEN /\ Len(e.list) = Len(target.list)
                             /\ \A k \in 1..Len(e.list) :
                                    errorsIs(e.list[k], target.list[k])
                        ELSE IF Len(e.list) = 0 THEN target = Nil
                        ELSE errorsIs(e.list[1], target)
                  [] OTHER -> FALSE
         IN  IF is THEN TRUE
             ELSE IF Unwrap(e) = Nil THEN FALSE
             ELSE errorsIs(Unwrap(e), target)

(* ------------------------------ options -------------------------------- *)

\* the zero rune of Option.Short: the option has no primary short letter
NoShort == "\\x00"

\* An Option value.  setter names the closure stored in SetValue:
\* "bool" (BoolOption), "string" (StringOption), "int" (IntOption),
\* "help" (helpOption, which sets helpFlag) or "fail" (a caller-written
\* SetValue that returns an error).
MkOption(name, short, names, hasParam, optionalParam, setter) ==
    [Name |-> name, Short |-> short, Names |-> names, Shorts |-> <<>>,
     HasParam |-> hasParam, OptionalParam |-> optionalParam,
     setter |-> setter]

\* Option.AllNames
AllNames(opt) ==
    SortStrings((IF opt.Name # <<>> THEN <<opt.Name>> ELSE <<>>) \o opt.Names)

\* Option.hasShortString
hasShortString(opt, s) ==
    IF s = <<>> \/ s = <<NoShort>> THEN FALSE
    ELSE \/ <<opt.Short>> = s
         \/ \E k \in 1..Len(opt.Shorts) : <<opt.Shorts[k]>> = s

\* strconv.ParseInt(arg, 0, intSize) on the strings of the modelled
\* alphabet: an optional '-' followed by the digit 1 repeated
RECURSIVE Ones(_)
Ones(s) == IF s = <<>> THEN 0 ELSE 10 * Ones(SubSeq(s, 1, Len(s) - 1)) + 1

ParseInt(arg) ==
    LET neg  == arg # <<>> /\ arg[1] = "-"
        body == IF neg THEN Tail(arg) ELSE arg
    IN  IF body = <<>> \/ \E k \in 1..Len(body) : body[k] # "1"
        THEN [ok |-> FALSE, val |-> 0]
        ELSE [ok |-> TRUE, val |-> IF neg THEN 0 - Ones(body) ELSE Ones(body)]

\* value of the bound variable when parsing starts
InitialValue(opt) ==
    CASE opt.setter = "bool" -> FALSE
      [] opt.setter = "string" -> <<>>
      [] opt.setter = "int" -> 0
      [] OTHER -> FALSE

\* opt.SetValue(name, param, noParam) on the bound variable val:
\* the new value and the error returned
SetValue(opt, name, param, noParam, val) ==
    CASE opt.setter = "bool" -> [val |-> TRUE, err |-> Nil]
      [] opt.setter = "string" -> [val |-> param, err |-> Nil]
      [] opt.setter = "help" -> [val |-> TRUE, err |-> Nil]
      [] opt.setter = "int" ->
            IF ParseInt(param).ok
            THEN [val |-> ParseInt(param).val, err |-> Nil]
            ELSE [val |-> val, err |-> [type |-> "strconv.NumError"]]
      [] OTHER -> [val |-> val, err |-> [type |-> "custom"]]

\* one invocation of a setter: option index, name and parameter passed,
\* index of the token and of the character in it (0 for a long option)
Call(o, name, param, noParam, tok, pos) ==
    [opt |-> o, name |-> name, param |-> param, noParam |-> noParam,
     tok |-> tok, pos |-> pos]

(* ------------------------- handleLongOption ---------------------------- *)

\* variant of cutAtOption: the slice is not cut
cutNothing(a) == a

\* src/options.go:876-881 and 963-968: the argument slice seen by a handler
\* ends before the first later argument that starts with '-'
cutAtOption(a) ==
    LET hits == {k \in 2..Len(a) : Len(a[k]) > 0 /\ a[k][1] = "-"}
    IN  IF hits = {} THEN a ELSE SubSeq(a, 1, Min(hits) - 1)

\* variant of longSearch: a name matches only if it equals the candidate
RECURSIVE longSearchExact(_, _, _, _, _)
longSearchExact(opts, oi, ni, option, found) ==
    IF oi > Len(opts)
    THEN [twice |-> FALSE, option |-> option, found |-> found]
    ELSE IF ni > Len(AllNames(opts[oi]))
    THEN longSearchExact(opts, oi + 1, 1, option, found)
    ELSE IF AllNames(opts[oi])[ni] = option
    THEN IF found # 0
         THEN [twice |-> TRUE, option |-> option, found |-> found]
         ELSE longSearchExact(opts, oi, ni + 1, AllNames(opts[oi])[ni], oi)
    ELSE longSearchExact(opts, oi, ni + 1, option, found)

\* the search loop of handleLongOption (lines 894-905), from name number ni
\* of option number oi on: option is the candidate string, which the loop
\* overwrites with the matched name; found is the index of the option found
\* so far (0 for nil).  twice: the loop returned because a second name
\* matched.
RECURSIVE longSearch(_, _, _, _, _)
longSearch(opts, oi, ni, option, found) ==
    IF oi > Len(opts)
    THEN [twice |-> FALSE, option |-> option, found |-> found]
    ELSE IF ni > Len(AllNames(opts[oi]))
    THEN longSearch(opts, oi + 1, 1, option, found)
    ELSE IF HasPrefix(AllNames(opts[oi])[ni], option)
    THEN IF found # 0
         THEN [twice |-> TRUE, option |-> option, found |-> found]
         ELSE longSearch(opts, oi, ni + 1, AllNames(opts[oi])[ni], oi)
    ELSE longSearch(opts, oi, ni + 1, option, found)

\* handleLongOption(options, a) where a = args[base:]; v are the bound
\* variables.  Gives argsUsed, err, the setter invocations made and the
\* bound variables afterwards.
handleLongOption(opts, a, v, base) ==
    LET cut    == cutAtOption(a)
        arg    == cut[1]
        k      == IndexByte(arg, "=")
        option == IF k >= 0 THEN Slice(arg, 2, k) ELSE Slice(arg, 2, Len(arg))
        m      == longSearch(opts, 1, 1, option, 0)
        found  == opts[m.found]
        noParam == k < 0 /\ Len(cut) = 1
        param  == IF k >= 0 THEN Slice(arg, k + 1, Len(arg))
                  ELSE IF Len(cut) = 1 THEN <<>> ELSE cut[2]
        used   == IF k < 0 /\ Len(cut) > 1 THEN 2 ELSE 1
        Ret(u, e, c, w) == [argsUsed |-> u, err |-> e, calls |-> c, vals |-> w]
    IN  IF option = <<>> THEN Ret(1, unrecognizedOptionError(arg), <<>>, v)
        ELSE IF m.twice THEN Ret(0, unrecognizedOptionError(arg), <<>>, v)
        ELSE IF m.found = 0 THEN Ret(1, unrecognizedOptionError(arg), <<>>, v)
        ELSE IF ~found.HasParam
        THEN IF k >= 0
             THEN Ret(1, OptionError(m.option, "requires no parameter",
                                     m.option, Nil), <<>>, v)
             ELSE LET r == SetValue(found, m.option, <<>>, TRUE, v[m.found])
                      c == <<Call(m.found, m.option, <<>>, TRUE, base, 0)>>
                  IN  IF r.err # Nil
                      THEN Ret(1, OptionError(m.option, "error setting value",
                                              m.option, r.err), c, v)
                      ELSE Ret(1, Nil, c, [v EXCEPT ![m.found] = r.val])
        ELSE IF noParam /\ ~found.OptionalParam
        THEN Ret(1, OptionError(m.option, "no parameter", m.option, Nil),
                 <<>>, v)
        ELSE LET r == SetValue(found, m.option, param, noParam, v[m.found])
                 c == <<Call(m.found, m.option, param, noParam, base, 0)>>
             IN  IF r.err # Nil
                 THEN Ret(used, OptionError(m.option, "error setting value",
                                            param \o m.option, r.err), c, v)
                 ELSE Ret(used, Nil, c, [v EXCEPT ![m.found] = r.val])

(* ------------------------ handleShortOptions --------------------------- *)

\* the first option of the list that has the short letter (lines 974-979);
\* 0 for nil
shortSearch(opts, option) ==
    LET hits == {o \in 1..Len(opts) : hasShortString(opts[o], option)}
    IN  IF hits = {} THEN 0 ELSE Min(hits)

\* the loop of handleShortOptions over the characters of arg (lines
\* 971-1022), from the character with 0-based index j on; idx is the loop's
\* variable i, c the invocations made so far
RECURSIVE shortLoop(_, _, _, _, _, _, _)
shortLoop(opts, cut, j, idx, v, c, base) ==
    LET arg    == cut[1]
        option == <<arg[j + 1]>>
        f      == shortSearch(opts, option)
        found  == opts[f]
        noParam == idx >= Len(cut)
        param  == IF noParam THEN <<>> ELSE cut[idx + 1]
        idx2   == IF noParam THEN idx ELSE idx + 1
        Ret(u, e, cc, w) == [argsUsed |-> u, err |-> e, calls |-> cc, vals |-> w]
    IN  IF j >= Len(arg) THEN Ret(idx, Nil, c, v)
        ELSE IF f = 0 THEN Ret(idx, unrecognizedOptionError(option), c, v)
        ELSE IF ~found.HasParam
        THEN LET r  == SetValue(found, option, <<>>, TRUE, v[f])
                 c2 == Append(c, Call(f, option, <<>>, TRUE, base, j))
             IN  IF r.err # Nil
                 THEN Ret(idx, OptionError(option, "error setting value",
                                           option, r.err), c2, v)
                 ELSE shortLoop(opts, cut, j + 1, idx,
                                [v EXCEPT ![f] = r.val], c2, base)
        ELSE IF noParam /\ ~found.OptionalParam
        THEN Ret(idx, OptionError(option, "lacks parameter", option, Nil), c, v)
        ELSE LET r  == SetValue(found, option, param, noParam, v[f])
                 c2 == Append(c, Call(f, option, param, noParam, base, j))
             IN  IF r.err # Nil
                 THEN Ret(idx2, OptionError(option, "error setting value",
                                            param \o option, r.err), c2, v)
                 ELSE shortLoop(opts, cut, j + 1, idx2,
                                [v EXCEPT ![f] = r.val], c2, base)

\* variant of handleShortOptions: the loop's index starts at 0
handleShortOptionsFromZero(opts, a, v, base) ==
    shortLoop(opts, cutAtOption(a), 1, 0, v, <<>>, base)

\* variant of handleShortOptions: only the first character is handled
handleFirstShortOnly(opts, a, v, base) ==
    shortLoop(opts, <<SubSeq(cutAtOption(a)[1], 1, 2)>> \o Tail(cutAtOption(a)),
              1, 1, v, <<>>, base)

\* handleShortOptions(options, a) where a = args[base:]
handleShortOptions(opts, a, v, base) ==
    shortLoop(opts, cutAtOption(a), 1, 1, v, <<>>, base)

(* --------------------------- ParseOptions ------------------------------ *)

\* the state of one call of ParseOptions: i, errList, the position in the
\* function (pc), the values returned (n, err), and the record of what the
\* call did: the setter invocations (calls), one entry per pass of the loop
\* over an option token (passes), the indices the loop looked at (visited),
\* and the bound variables (vals)
Start(opts) ==
    [i |-> 0, errList |-> <<>>, pc |-> "loop", n |-> 0, err |-> Nil,
     calls |-> <<>>, passes |-> <<>>, visited |-> {},
     vals |-> [o \in 1..Len(opts) |-> InitialValue(opts[o])]]

\* args[i:]
From(a, k) == SubSeq(a, k + 1, Len(a))

DashDash == <<"-", "-">>
Dash == <<"-">>

\* variant of afterHandler: the index moves on by one whatever the handler
\* used
afterHandlerOneStep(s, r) ==
    [s EXCEPT !.i = s.i + 1,
              !.errList = IF r.err # Nil THEN Append(s.errList, r.err)
                          ELSE s.errList,
              !.calls = s.calls \o r.calls,
              !.passes = Append(s.passes,
                                [at |-> s.i, argsUsed |-> r.argsUsed,
                                 err |-> r.err, calls |-> r.calls]),
              !.visited = s.visited \cup {s.i},
              !.vals = r.vals]

\* the effect of a handler's result on the loop (lines 1136-1141, 1149-1154)
afterHandler(s, r) ==
    [s EXCEPT !.i = s.i + r.argsUsed,
              !.errList = IF r.err # Nil THEN Append(s.errList, r.err)
                          ELSE s.errList,
              !.calls = s.calls \o r.calls,
              !.passes = Append(s.passes,
                                [at |-> s.i, argsUsed |-> r.argsUsed,
                                 err |-> r.err, calls |-> r.calls]),
              !.visited = s.visited \cup {s.i},
              !.vals = r.vals]

\* a pass of the loop over a token that starts with "--" and is not "--"
longPass(opts, a, s) ==
    afterHandler(s, handleLongOption(opts, From(a, s.i), s.vals, s.i))

\* a pass of the loop over a token that starts with "-" and is not "-"
shortPass(opts, a, s) ==
    afterHandler(s, handleShortOptions(opts, From(a, s.i), s.vals, s.i))

\* variant of terminatorReturn: return i, nil
terminatorNotConsumed(s) ==
    [s EXCEPT !.pc = "done", !.n = s.i, !.err = Nil,
              !.visited = s.visited \cup {s.i}]

\* return i + 1, nil (line 1134)
terminatorReturn(s) ==
    [s EXCEPT !.pc = "done", !.n = s.i + 1, !.err = Nil,
              !.visited = s.visited \cup {s.i}]

\* variant of dashReturn: return i + 1, nil
dashConsumed(s) ==
    [s EXCEPT !.pc = "done", !.n = s.i + 1, !.err = Nil,
              !.visited = s.visited \cup {s.i}]

\* return i, nil (line 1146)
dashReturn(s) ==
    [s EXCEPT !.pc = "done", !.n = s.i, !.err = Nil,
              !.visited = s.visited \cup {s.i}]

\* variant of finalReturn: return i, nil
finalReturnNil(a, s) ==
    [s EXCEPT !.pc = "done", !.n = s.i, !.err = Nil,
              !.visited = IF s.i < Len(a) THEN s.visited \cup {s.i}
                          ELSE s.visited]

\* return i, errList.Flatten() (line 1160), after the break of line 1157 or
\* when the loop condition fails
finalReturn(a, s) ==
    [s EXCEPT !.pc = "done", !.n = s.i, !.err = Flatten(s.errList),
              !.visited = IF s.i < Len(a) THEN s.visited \cup {s.i}
                          ELSE s.visited]

atLong(a, s) ==
    /\ s.pc = "loop" /\ s.i < Len(a)
    /\ HasPrefix(a[s.i + 1], DashDash) /\ a[s.i + 1] # DashDash

atTerminator(a, s) == s.pc = "loop" /\ s.i < Len(a) /\ a[s.i + 1] = DashDash

atShort(a, s) ==
    /\ s.pc = "loop" /\ s.i < Len(a)
    /\ ~HasPrefix(a[s.i + 1], DashDash)
    /\ HasPrefix(a[s.i + 1], Dash) /\ a[s.i + 1] # Dash

atDash(a, s) == s.pc = "loop" /\ s.i < Len(a) /\ a[s.i + 1] = Dash

atNonOption(a, s) ==
    s.pc = "loop" /\ s.i < Len(a) /\ ~HasPrefix(a[s.i + 1], Dash)

atEnd(a, s) == s.pc = "loop" /\ s.i >= Len(a)

\* the model follows the loop as long as fewer than MaxSpin passes left the
\* index where it was
spinning(s) == Cardinality({k \in 1..Len(s.passes) : s.passes[k].argsUsed = 0})

\* one step of ParseOptions(opts, a) from state s
step(opts, a, s) ==
    IF atLong(a, s) THEN longPass(opts, a, s)
    ELSE IF atTerminator(a, s) THEN terminatorReturn(s)
    ELSE IF atShort(a, s) THEN shortPass(opts, a, s)
    ELSE IF atDash(a, s) THEN dashReturn(s)
    ELSE finalReturn(a, s)

\* ParseOptions(opts, a) run from state s until it returns, or until it made
\* MaxSpin passes without advancing
RECURSIVE run(_, _, _)
run(opts, a, s) ==
    IF s.pc = "done" \/ spinning(s) >= MaxSpin THEN s
    ELSE run(opts, a, step(opts, a, s))

ParseOptions(opts, a) == run(opts, a, Start(opts))

(* ------------------------------ inputs --------------------------------- *)

foo == <<"f", "o", "o">>
bar == <<"b", "a", "r">>
flag == <<"f", "l", "a", "g">>
str == <<"s", "t", "r">>
string == <<"s", "t", "r", "i", "n", "g">>
all == <<"a", "l", "l">>

\* BoolOption(&f, "flag", 'f', ...) and StringOption(&str, "str", 's', ...)
\* of TestParseOptions, and variations of them
oFlag == MkOption(flag, "f", <<>>, FALSE, FALSE, "bool")
oStr == MkOption(str, "s", <<>>, TRUE, FALSE, "string")
oString == MkOption(string, NoShort, <<>>, TRUE, FALSE, "string")
oStrOptional == MkOption(str, "s", <<>>, TRUE, TRUE, "string")
oInt == MkOption(str, "s", <<>>, TRUE, FALSE, "int")
oFail == MkOption(flag, "f", <<>>, FALSE, FALSE, "fail")
oAlias == MkOption(str, "s", <<string>>, TRUE, FALSE, "string")
oAll == MkOption(all, "a", <<>>, FALSE, FALSE, "bool")
\* a second boolean option that declares the short letter f
oFast == MkOption(<<"f", "a", "s", "t">>, "f", <<>>, FALSE, FALSE, "bool")
\* an option whose long name holds a '='
oEq == MkOption(<<"s", "=", "t">>, NoShort, <<>>, TRUE, FALSE, "string")

OptionSets ==
    { <<oFlag, oStr>>, <<oStr, oString>>, <<oString, oStr>>,
      <<oFlag, oStrOptional>>, <<oFlag, oInt>>, <<oFail, oStr>>,
      <<oAlias, oFlag>>, <<oFlag, oFast>> }

Tokens ==
    { DashDash, Dash, <<>>, <<"1">>,
      <<"-", "-", "s">>, <<"-", "-", "s", "t", "r">>,
      <<"-", "-", "s", "t", "r", "=", "1">>,
      <<"-", "-", "f">>, <<"-", "-", "f", "=", "1">>,
      <<"-", "f">>, <<"-", "s">>, <<"-", "f", "s">>, <<"-", "s", "f">> }

ArgLists == UNION {[1..k -> Tokens] : k \in 0..MaxArgs}

(* --------------------------- Parse and Run ----------------------------- *)

\* longest argument list given to Run
MaxCmdArgs == 3

\* a Command value; Exec tells whether the Exec function is non-nil
MkCommand(name, opts, subcommands, exec) ==
    [Name |-> name, Options |-> opts, Subcommands |-> subcommands,
     Exec |-> exec]

\* the command that the path of subcommand indices leads to from c
RECURSIVE Node(_, _)
Node(c, path) ==
    IF path = <<>> THEN c
    ELSE Node(c.Subcommands[path[1]], Tail(path))

\* variant of commandSearch: a subcommand is found by its whole name
commandSearchExact(subs, arg, idx, found) ==
    LET hits == {k \in 1..Len(subs) : subs[k].Name = arg}
    IN  [twice |-> Cardinality(hits) > 1,
         found |-> IF hits = {} THEN 0 ELSE Min(hits)]

\* variant of commandSearch: the first subcommand that matches is taken
commandSearchFirst(subs, arg, idx, found) ==
    LET hits == {k \in 1..Len(subs) : HasPrefix(subs[k].Name, arg)}
    IN  [twice |-> FALSE, found |-> IF hits = {} THEN 0 ELSE Min(hits)]

\* the loop over cmd.Subcommands of Parse (lines 293-301), from the
\* subcommand idx on: found is the index of the subcommand found so far
\* (0: none); twice tells that a second match made the loop return
RECURSIVE commandSearch(_, _, _, _)
commandSearch(subs, arg, idx, found) ==
    IF idx > Len(subs) THEN [twice |-> FALSE, found |-> found]
    ELSE IF HasPrefix(subs[idx].Name, arg)
    THEN IF found # 0 THEN [twice |-> TRUE, found |-> found]
         ELSE commandSearch(subs, arg, idx + 1, idx)
    ELSE commandSearch(subs, arg, idx + 1, found)

\* ---- inputs: command trees and command lines

version == <<"v", "e", "r", "s", "i", "o", "n">>
verify == <<"v", "e", "r", "i", "f", "y">>
remote == <<"r", "e", "m", "o", "t", "e">>
dir == <<"d", "i", "r">>

oDir == MkOption(dir, "d", <<>>, TRUE, FALSE, "string")

versionCmd == MkCommand(version, <<>>, <<>>, TRUE)
verifyCmd == MkCommand(verify, <<>>, <<>>, FALSE)

\* the tree of TestParse: root foo with the option dir/d, the subcommand
\* version and an Exec of its own
testRoot == MkCommand(foo, <<oDir>>, <<versionCmd>>, TRUE)

\* a root without options and without Exec, with two subcommands whose
\* names share the prefix "ver"
twoRoot == MkCommand(foo, <<>>, <<versionCmd, verifyCmd>>, FALSE)

\* a tree of three levels with options at the root and at the subcommand
\* remote
remoteCmd == MkCommand(remote, <<oDir>>, <<versionCmd, verifyCmd>>, FALSE)
deepRoot == MkCommand(foo, <<oDir>>, <<remoteCmd, versionCmd>>, TRUE)

Trees == {testRoot, twoRoot, deepRoot}

CmdTokens ==
    { <<"v", "e", "r">>, <<"v", "e", "r", "s">>, <<"r">>, <<>>,
      <<"-", "d">>, DashDash, Dash, <<"1">> }

CmdLines == UNION {[1..k -> CmdTokens] : k \in 0..MaxCmdArgs}

\* what an Exec function returns
ExecResults == {Nil, [type |-> "exec error"]}

\* ---- the state machine of Run

\* no call of Run is under way (the specifications of ParseOptions)
ParseIdle ==
    /\ root = MkCommand(<<>>, <<>>, <<>>, FALSE) /\ cmdline = <<>>
    /\ commands = <<>> /\ cmd = <<>> /\ pn = 0 /\ perr = Nil
    /\ ppc = "idle" /\ levels = <<>> /\ execs = <<>> /\ rerr = Nil

\* no call of WriteDoc is under way
DocIdle ==
    /\ dcmd = MkCommand(<<>>, <<>>, <<>>, FALSE) /\ dpc = "idle" /\ di = 0
    /\ sections = <<>> /\ listed = <<>>

\* no help option was ever given
HelpIdle == helpFlag = FALSE /\ docs = <<>> /\ past = <<>>

\* no call of formatText is under way
FormatIdle ==
    /\ ftext = <<>> /\ fwidth = 0 /\ lineWidth = 0 /\ indent = <<>>
    /\ lx = [s |-> <<>>, pos |-> 0, lastRead |-> FALSE, buf |-> <<>>,
             token |-> [typ |-> "tError", val |-> <<>>], err |-> "nil",
             state |-> "nil"]
    /\ column = 0 /\ out = <<>> /\ fpc = "idle" /\ ferr = "nil"
    /\ ftokens = <<>> /\ verbatims = {}

\* no call of ParseOptions is followed step by step (the specification of
\* Run, where Parse calls ParseOptions as a whole)
OptionsIdle ==
    /\ options = <<>> /\ args = <<>> /\ i = 0 /\ errList = <<>>
    /\ pc = "idle" /\ n = 0 /\ err = Nil /\ calls = <<>> /\ passes = <<>>
    /\ visited = {} /\ vals = <<>>

\* Run(root, cmdline) called Parse(root, cmdline): cmd := root, n = 0
InitParse ==
    /\ root \in Trees
    /\ cmdline \in CmdLines
    /\ commands = <<>> /\ cmd = <<>> /\ pn = 0 /\ perr = Nil
    /\ ppc = "options" /\ levels = <<>> /\ execs = <<>> /\ rerr = Nil
    /\ OptionsIdle /\ FormatIdle /\ DocIdle /\ HelpIdle

\* helpOption(): the option help/h whose setter sets helpFlag
helpOption ==
    MkOption(<<"h", "e", "l", "p">>, "h", <<>>, FALSE, FALSE, "help")

\* AddHelpOption(cmd): the command with the help option appended and its
\* Exec replaced, unless it is called help, has no Exec or has an option -h
AddHelpOption(c) ==
    IF \/ c.Name = <<"h", "e", "l", "p">>
       \/ ~c.Exec
       \/ \E k \in 1..Len(c.Options) : c.Options[k].Short = "h"
    THEN c
    ELSE [c EXCEPT !.Options = Append(c.Options, helpOption)]

\* AddHelpOptionToAll(cmd)
RECURSIVE AddHelpOptionToAll(_)
AddHelpOptionToAll(c) ==
    [AddHelpOption(c) EXCEPT
        !.Subcommands = [k \in 1..Len(c.Subcommands) |->
                             AddHelpOptionToAll(c.Subcommands[k])]]

\* the Exec of the command is the function that AddHelpOption installed
Wrapped(c) ==
    c.Exec /\ \E k \in 1..Len(c.Options) : c.Options[k].setter = "help"

\* the record of the option parsing at a level: the command, the count n
\* before it, whether ParseOptions was called, and what it returned and did
Level(path, at, parsed, r) ==
    [cmd |-> path, at |-> at, parsed |-> parsed, k |-> r.n, err |-> r.err,
     calls |-> r.calls, vals |-> r.vals, errList |-> r.errList]

\* variant of hasOptions: options are parsed at every command
hasOptionsAlways(c) == TRUE

\* len(cmd.Options) > 0 (line 277)
hasOptions(c) == Len(c.Options) > 0

\* variant of levelError: the error is returned as it is at every level
levelErrorBare(path, c, e) == e

\* the error Parse returns for the error e of ParseOptions at the command c
\* reached by path (lines 281-286)
levelError(path, c, e) ==
    IF path # <<>> THEN CommandError(c.Name, "", <<>>, e) ELSE e

\* the setter of a help option was invoked by the call r of ParseOptions
\* for the command c: helpFlag = true
helpSet(c, r) ==
    /\ hasOptions(c)
    /\ \E k \in 1..Len(r.calls) : c.Options[r.calls[k].opt].setter = "help"

\* the head of the loop of Parse (lines 276-289): the command joins the
\* chain and, if it has options, ParseOptions parses args[n:]
ParseLevel ==
    /\ ppc = "options"
    /\ LET c == Node(root, cmd)
           r == ParseOptions(c.Options, From(cmdline, pn))
       IN  /\ commands' = Append(commands, cmd)
           /\ IF ~hasOptions(c)
              THEN /\ levels' = Append(levels,
                                       Level(cmd, pn, FALSE, Start(<<>>)))
                   /\ ppc' = "match"
                   /\ UNCHANGED <<pn, perr>>
              ELSE IF r.pc # "done"
              THEN \* ParseOptions does not return
                   /\ levels' = Append(levels, Level(cmd, pn, TRUE, r))
                   /\ ppc' = "hang"
                   /\ UNCHANGED <<pn, perr>>
              ELSE /\ levels' = Append(levels, Level(cmd, pn, TRUE, r))
                   /\ pn' = pn + r.n
                   /\ IF r.err # Nil
                      THEN /\ perr' = levelError(cmd, c, r.err)
                           /\ ppc' = "returned"
                      ELSE /\ ppc' = "match"
                           /\ UNCHANGED perr
    /\ helpFlag' = (helpFlag \/ helpSet(Node(root, cmd),
                                        ParseOptions(Node(root, cmd).Options,
                                                     From(cmdline, pn))))
    /\ UNCHANGED <<root, cmdline, cmd, execs, rerr>>
    /\ UNCHANGED <<ovars, fvars, dvars, docs, past>>

\* the result of the search for args[n] among the subcommands of cmd
Found == commandSearch(Node(root, cmd).Subcommands, cmdline[pn + 1], 1, 0)

\* variant of Descend: the argument that names the subcommand is not counted
DescendNoCount ==
    /\ ppc = "match" /\ pn < Len(cmdline)
    /\ ~Found.twice /\ Found.found # 0
    /\ pn' = pn
    /\ cmd' = Append(cmd, Found.found)
    /\ ppc' = "options"
    /\ UNCHANGED <<root, cmdline, commands, perr, levels, execs, rerr>>
    /\ UNCHANGED <<ovars, fvars, dvars, hvars>>

\* exactly one subcommand matches args[n]: n++, cmd = found, continue
\* (lines 305-307)
Descend ==
    /\ ppc = "match" /\ pn < Len(cmdline)
    /\ ~Found.twice /\ Found.found # 0
    /\ pn' = pn + 1
    /\ cmd' = Append(cmd, Found.found)
    /\ ppc' = "options"
    /\ UNCHANGED <<root, cmdline, commands, perr, levels, execs, rerr>>
    /\ UNCHANGED <<ovars, fvars, dvars, hvars>>

\* a second subcommand matches args[n]: return commands, n,
\* unrecognizedCommand(arg) (lines 295-298)
UnrecognizedCommand ==
    /\ ppc = "match" /\ pn < Len(cmdline)
    /\ Found.twice
    /\ perr' = unrecognizedCommand(cmdline[pn + 1])
    /\ ppc' = "returned"
    /\ UNCHANGED <<root, cmdline, commands, cmd, pn, levels, execs, rerr>>
    /\ UNCHANGED <<ovars, fvars, dvars, hvars>>

\* no subcommand matches args[n]: return commands, n, nil (lines 302-304)
NoSubcommand ==
    /\ ppc = "match" /\ pn < Len(cmdline)
    /\ ~Found.twice /\ Found.found = 0
    /\ ppc' = "returned"
    /\ UNCHANGED <<root, cmdline, commands, cmd, pn, perr, levels, execs,
                   rerr>>
    /\ UNCHANGED <<ovars, fvars, dvars, hvars>>

\* no argument is left: return commands, n, nil (line 309)
NoArgument ==
    /\ ppc = "match" /\ pn >= Len(cmdline)
    /\ ppc' = "returned"
    /\ UNCHANGED <<root, cmdline, commands, cmd, pn, perr, levels, execs,
                   rerr>>
    /\ UNCHANGED <<ovars, fvars, dvars, hvars>>

\* Run returns the error of Parse (lines 317-319)
RunParseError ==
    /\ ppc = "returned" /\ perr # Nil
    /\ rerr' = perr
    /\ ppc' = "exit"
    /\ UNCHANGED <<root, cmdline, commands, cmd, pn, perr, levels, execs>>
    /\ UNCHANGED <<ovars, fvars, dvars, hvars>>

\* the last command of the chain has no Exec (lines 320-327)
RunNoExec ==
    /\ ppc = "returned" /\ perr = Nil
    /\ ~Node(root, commands[Len(commands)]).Exec
    /\ rerr' = CommandError(Node(root, commands[Len(commands)]).Name,
                            "couldn't find executable subcommand", <<>>, Nil)
    /\ ppc' = "exit"
    /\ UNCHANGED <<root, cmdline, commands, cmd, pn, perr, levels, execs>>
    /\ UNCHANGED <<ovars, fvars, dvars, hvars>>

\* variant of RunExec: the Exec called is that of the first command of the
\* chain
RunExecFirst ==
    /\ ppc = "returned" /\ perr = Nil
    /\ Node(root, commands[Len(commands)]).Exec
    /\ execs' = Append(execs, [cmd |-> commands[1],
                               args |-> From(cmdline, pn)])
    /\ \E e \in ExecResults : rerr' = e
    /\ ppc' = "exit"
    /\ UNCHANGED <<root, cmdline, commands, cmd, pn, perr, levels>>
    /\ UNCHANGED <<ovars, fvars, dvars, hvars>>

\* variant of RunExec: Exec is called with the whole argument list
RunExecAll ==
    /\ ppc = "returned" /\ perr = Nil
    /\ Node(root, commands[Len(commands)]).Exec
    /\ execs' = Append(execs, [cmd |-> commands[Len(commands)],
                               args |-> cmdline])
    /\ \E e \in ExecResults : rerr' = e
    /\ ppc' = "exit"
    /\ UNCHANGED <<root, cmdline, commands, cmd, pn, perr, levels>>
    /\ UNCHANGED <<ovars, fvars, dvars, hvars>>

\* Run calls the Exec of the last command of the chain with args[n:] and
\* returns what it returns (lines 328-330).  The Exec that AddHelpOption
\* installed prints the documentation of the command if helpFlag is set
\* and calls the Exec it replaced otherwise.
RunExec ==
    /\ ppc = "returned" /\ perr = Nil
    /\ Node(root, commands[Len(commands)]).Exec
    /\ execs' = Append(execs, [cmd |-> commands[Len(commands)],
                               args |-> From(cmdline, pn)])
    /\ IF Wrapped(Node(root, commands[Len(commands)])) /\ helpFlag
       THEN /\ docs' = Append(docs, commands[Len(commands)])
            /\ rerr' = Nil
       ELSE /\ docs' = docs
            /\ \E e \in ExecResults : rerr' = e
    /\ ppc' = "exit"
    /\ UNCHANGED <<root, cmdline, commands, cmd, pn, perr, levels>>
    /\ UNCHANGED <<ovars, fvars, dvars, helpFlag, past>>

NextParse ==
    \/ ParseLevel
    \/ Descend
    \/ UnrecognizedCommand
    \/ NoSubcommand
    \/ NoArgument
    \/ RunParseError
    \/ RunNoExec
    \/ RunExec

SpecParse == InitParse /\ [][NextParse]_vars

(* ------------------------- the state machine --------------------------- *)

Cur ==
    [i |-> i, errList |-> errList, pc |-> pc, n |-> n, err |-> err,
     calls |-> calls, passes |-> passes, visited |-> visited, vals |-> vals]

Becomes(s) ==
    /\ i' = s.i /\ errList' = s.errList /\ pc' = s.pc /\ n' = s.n
    /\ err' = s.err /\ calls' = s.calls /\ passes' = s.passes
    /\ visited' = s.visited /\ vals' = s.vals
    /\ UNCHANGED <<options, args>>
    /\ UNCHANGED <<pvars, fvars, dvars, hvars>>

Init ==
    /\ options \in OptionSets
    /\ args \in ArgLists
    /\ i = Start(options).i /\ errList = Start(options).errList
    /\ pc = Start(options).pc /\ n = Start(options).n
    /\ err = Start(options).err /\ calls = Start(options).calls
    /\ passes = Start(options).passes /\ visited = Start(options).visited
    /\ vals = Start(options).vals
    /\ ParseIdle /\ FormatIdle /\ DocIdle /\ HelpIdle

LongOption ==
    /\ atLong(args, Cur) /\ spinning(Cur) < MaxSpin
    /\ Becomes(longPass(options, args, Cur))

ShortOptions ==
    /\ atShort(args, Cur) /\ spinning(Cur) < MaxSpin
    /\ Becomes(shortPass(options, args, Cur))

Terminator == atTerminator(args, Cur) /\ Becomes(terminatorReturn(Cur))

BareDash == atDash(args, Cur) /\ Becomes(dashReturn(Cur))

NonOption == atNonOption(args, Cur) /\ Becomes(finalReturn(args, Cur))

EndOfArgs == atEnd(args, Cur) /\ Becomes(finalReturn(args, Cur))

Next ==
    \/ LongOption
    \/ ShortOptions
    \/ Terminator
    \/ BareDash
    \/ NonOption
    \/ EndOfArgs

Spec == Init /\ [][Next]_vars

(* ------------------- vocabulary of the properties ---------------------- *)

StartsWithDash(a) == Len(a) > 0 /\ a[1] = "-"

\* a long-option token without an attached "=value"
PlainLong(t) ==
    HasPrefix(t, DashDash) /\ t # DashDash /\ IndexByte(t, "=") = -1

\* a short-option token
ShortToken(t) == HasPrefix(t, Dash) /\ ~HasPrefix(t, DashDash) /\ t # Dash

\* the declared long names, as pairs of option index and name, that start
\* with p
Matching(opts, p) ==
    {on \in UNION {{<<o, nm>> : nm \in {AllNames(opts[o])[k] :
                                  k \in 1..Len(AllNames(opts[o]))}} :
                   o \in 1..Len(opts)} : HasPrefix(on[2], p)}

\* no parameter is available to the token at index at: it is the last
\* argument or the next argument starts with '-'
NoParamAfter(at) == at + 1 >= Len(args) \/ StartsWithDash(args[at + 2])

\* the errors found by the passes made so far, in order
RECURSIVE Errors(_)
Errors(ps) ==
    IF ps = <<>> THEN <<>>
    ELSE Errors(SubSeq(ps, 1, Len(ps) - 1)) \o
         (IF ps[Len(ps)].err # Nil THEN <<ps[Len(ps)].err>> ELSE <<>>)

(* ------------------------------ C1 ------------------------------------- *)

\* C1: every pass of the scanning loop over an option token advances the
\* argument index by at least one (so that ParseOptions terminates).
C1_EveryPassAdvances == [][(pc = "loop" /\ pc' = "loop") => i' > i]_vars

(* ------------------------------ C2 ------------------------------------- *)

\* C2: when ParseOptions returns, the returned error holds every error
\* found while scanning, in order of discovery, however scanning ended; in
\* particular it is nil only if no option token produced an error.
C2_AllErrorsReturned == pc = "done" => err = Flatten(Errors(passes))

(* ------------------------------ C3 ------------------------------------- *)

\* the option and the full name a uniquely matching prefix stands for
TheMatch(opts, p) == CHOOSE on \in Matching(opts, p) : TRUE

\* pass k went over a plain long token --p of which exactly one declared
\* long name has the prefix p
UniquePrefixPass(k) ==
    /\ PlainLong(args[passes[k].at + 1])
    /\ Cardinality(Matching(options, Slice(args[passes[k].at + 1], 2,
                                  Len(args[passes[k].at + 1])))) = 1

PrefixOf(k) == Slice(args[passes[k].at + 1], 2, Len(args[passes[k].at + 1]))

\* C3 as stated: if exactly one declared long name starts with p, the
\* token --p makes the parser invoke the setter of the option owning that
\* name, and no other setter.
C3_UniquePrefixInvokesSetter ==
    \A k \in 1..Len(passes) :
        UniquePrefixPass(k) =>
            /\ Len(passes[k].calls) = 1
            /\ passes[k].calls[1].opt = TheMatch(options, PrefixOf(k))[1]

\* C3 as amended: the token resolves to that option: no other option's
\* setter is invoked for it, and the option's setter is invoked once, with
\* the full name -- except when the option takes a mandatory parameter and
\* none is available, where no setter is invoked and the error recorded is
\* the missing-parameter error of that option.
C3_UniquePrefixResolves ==
    \A k \in 1..Len(passes) :
        UniquePrefixPass(k) =>
            LET o  == TheMatch(options, PrefixOf(k))[1]
                nm == TheMatch(options, PrefixOf(k))[2]
                ps == passes[k]
            IN  /\ \A c \in 1..Len(ps.calls) :
                       ps.calls[c].opt = o /\ ps.calls[c].name = nm
                /\ ps.argsUsed >= 1
                /\ IF /\ options[o].HasParam /\ ~options[o].OptionalParam
                      /\ NoParamAfter(ps.at)
                   THEN /\ ps.calls = <<>>
                        /\ ps.err.type = "OptionError"
                        /\ ps.err.Option = nm /\ ps.err.Msg = "no parameter"
                   ELSE Len(ps.calls) = 1

\* a proper prefix of the name of the second declared option was resolved
\* and that option's setter invoked
C3_Witness ==
    \E k \in 1..Len(passes) :
        /\ UniquePrefixPass(k)
        /\ Len(options) > 1
        /\ Len(passes[k].calls) = 1
        /\ passes[k].calls[1].opt = 2
        /\ passes[k].calls[1].name # PrefixOf(k)

(* ------------------------------ C4 ------------------------------------- *)

\* C4: if two or more declared long names start with p, the token --p is
\* reported as an unrecognized (ambiguous) option, no setter is invoked for
\* it, and ParseOptions returns a non-nil error.
C4_AmbiguousPrefixFails ==
    \A k \in 1..Len(passes) :
        (/\ PlainLong(args[passes[k].at + 1])
         /\ Cardinality(Matching(options, PrefixOf(k))) >= 2) =>
            /\ passes[k].calls = <<>>
            /\ passes[k].err.type = "OptionError"
            /\ passes[k].err.Option = unrecognized
            /\ pc = "done" => err # Nil

(* ------------------------------ C5 ------------------------------------- *)

\* C5 as stated: for any argument list with "--" at position k,
\* ParseOptions returns k + 1 and invokes no setter for a token after k.
C5_TerminatorAnywhere ==
    pc = "done" =>
        \A k \in 0..(Len(args) - 1) :
            args[k + 1] = DashDash =>
                /\ n = k + 1
                /\ \A c \in 1..Len(calls) : calls[c].tok < k

\* C5 as amended: if the scan reaches a "--" at position k, ParseOptions
\* returns there with the consumed count k + 1, no pass is made and no
\* setter invoked for a token at or after k, so that everything after
\* position k stays in the remainder args[n:].
C5_TerminatorStops ==
    \A k \in visited :
        args[k + 1] = DashDash =>
            /\ pc = "done" /\ n = k + 1
            /\ \A c \in 1..Len(calls) : calls[c].tok < k
            /\ \A p \in 1..Len(passes) : passes[p].at < k
            /\ From(args, n) = SubSeq(args, k + 2, Len(args))

\* the scan reached a "--" that is followed by a declared short option
C5_Witness ==
    \E k \in visited :
        /\ args[k + 1] = DashDash
        /\ k + 1 < Len(args)
        /\ ShortToken(args[k + 2])
        /\ shortSearch(options, <<args[k + 2][2]>>) # 0
        /\ n = k + 1

(* ------------------------------ C6 ------------------------------------- *)

\* pass k went over a plain long token that the search loop resolved to an
\* option with a mandatory parameter
MandatoryLongPass(k) ==
    /\ PlainLong(args[passes[k].at + 1])
    /\ ~longSearch(options, 1, 1, PrefixOf(k), 0).twice
    /\ longSearch(options, 1, 1, PrefixOf(k), 0).found # 0
    /\ options[longSearch(options, 1, 1, PrefixOf(k), 0).found].HasParam
    /\ ~options[longSearch(options, 1, 1, PrefixOf(k), 0).found].OptionalParam

\* pass k invoked the setter of option o once, with the argument after the
\* token as parameter, and consumed both arguments
TookNextArgument(k, o) ==
    /\ Len(passes[k].calls) = 1
    /\ passes[k].calls[1].opt = o
    /\ passes[k].calls[1].param = args[passes[k].at + 2]
    /\ ~passes[k].calls[1].noParam
    /\ passes[k].argsUsed = 2

\* pass k invoked no setter and reported the missing parameter
ReportedMissing(k) ==
    /\ passes[k].calls = <<>>
    /\ passes[k].err.type = "OptionError"
    /\ passes[k].err.Msg = "no parameter"
    /\ passes[k].argsUsed = 1

TakenBefore(k, c) ==
    Cardinality({d \in 1..(c - 1) :
                    /\ options[passes[k].calls[d].opt].HasParam
                    /\ ~passes[k].calls[d].noParam})

\* C7 as stated: in a short-option token a parameter-taking option takes
\* the rest of the token as parameter if characters follow it and the next
\* whole argument otherwise, and no character after it is resolved as an
\* option.
C7_RestOfTokenIsParameter ==
    \A k \in 1..Len(passes) :
        ShortToken(args[passes[k].at + 1]) =>
            \A c \in 1..Len(passes[k].calls) :
                LET call == passes[k].calls[c]
                    t    == args[passes[k].at + 1]
                IN  options[call.opt].HasParam =>
                        /\ c = Len(passes[k].calls)
                        /\ call.pos + 1 < Len(t) =>
                               call.param = Slice(t, call.pos + 1, Len(t))

\* C7 as amended: a parameter-taking short option never takes the rest of
\* the token: its parameter is the next whole argument not yet taken (none
\* if that argument is missing or starts with '-'), and clustering goes on
\* after it: every character of the token is resolved as a short option, in
\* order, until one of them produces an error.
C7_NextArgumentIsParameter ==
    \A k \in 1..Len(passes) :
        ShortToken(args[passes[k].at + 1]) =>
            LET ps == passes[k]
                t  == args[ps.at + 1]
            IN  /\ \A c \in 1..Len(ps.calls) :
                       /\ ps.calls[c].pos = c
                       /\ ps.calls[c].name = <<t[c + 1]>>
                       /\ options[ps.calls[c].opt].HasParam =>
                              IF NoParamAfter(ps.at + TakenBefore(k, c))
                              THEN ps.calls[c].noParam
                                   /\ ps.calls[c].param = <<>>
                              ELSE ~ps.calls[c].noParam
                                   /\ ps.calls[c].param =
                                        args[ps.at + TakenBefore(k, c) + 2]
                /\ ps.err = Nil => Len(ps.calls) = Len(t) - 1

\* in a cluster a parameter-taking option took the next argument and the
\* character after it was resolved as a further option
C7_Witness ==
    \E k \in 1..Len(passes) :
        /\ ShortToken(args[passes[k].at + 1])
        /\ Len(passes[k].calls) = 2
        /\ options[passes[k].calls[1].opt].HasParam
        /\ passes[k].calls[1].param = args[passes[k].at + 2]
        /\ passes[k].calls[1].param # <<>>
        /\ passes[k].calls[2].pos = 2

(* ------------------------------ C10 ------------------------------------ *)

\* C10: an option with an optional parameter and no attached value is
\* invoked with noParam = true and an empty parameter exactly when no
\* further argument exists or the next argument starts with '-'; otherwise
\* the next argument is its parameter and noParam is false.  A token that
\* names just this option consumes one argument in the first case and two
\* in the second; the setter is invoked in both.
C10_OptionalParameter ==
    \A k \in 1..Len(passes) :
        LET ps == passes[k]
            t  == args[ps.at + 1]
            m  == longSearch(options, 1, 1, PrefixOf(k), 0)
        IN  /\ (PlainLong(t) \/ ShortToken(t)) =>
                \A c \in 1..Len(ps.calls) :
                    (/\ options[ps.calls[c].opt].HasParam
                     /\ options[ps.calls[c].opt].OptionalParam) =>
                        IF NoParamAfter(ps.at + TakenBefore(k, c))
                        THEN ps.calls[c].noParam /\ ps.calls[c].param = <<>>
                        ELSE /\ ~ps.calls[c].noParam
                             /\ ps.calls[c].param =
                                  args[ps.at + TakenBefore(k, c) + 2]
            /\ (/\ PlainLong(t) /\ ~m.twice /\ m.found # 0
                /\ options[m.found].HasParam
                /\ options[m.found].OptionalParam) =>
                    /\ Len(ps.calls) = 1 /\ ps.calls[1].opt = m.found
                    /\ ps.argsUsed = IF NoParamAfter(ps.at) THEN 1 ELSE 2
            /\ (/\ ShortToken(t) /\ Len(t) = 2
                /\ shortSearch(options, <<t[2]>>) # 0
                /\ options[shortSearch(options, <<t[2]>>)].HasParam
                /\ options[shortSearch(options, <<t[2]>>)].OptionalParam) =>
                    /\ Len(ps.calls) = 1
                    /\ ps.calls[1].opt = shortSearch(options, <<t[2]>>)
                    /\ ps.argsUsed = IF NoParamAfter(ps.at) THEN 1 ELSE 2

\* an optional-parameter option was invoked without parameter although an
\* argument followed it, because that argument starts with '-'
C10_Witness ==
    \E k \in 1..Len(passes) :
        /\ Len(passes[k].calls) = 1
        /\ options[passes[k].calls[1].opt].OptionalParam
        /\ passes[k].calls[1].noParam
        /\ passes[k].calls[1].param = <<>>
        /\ passes[k].at + 1 < Len(args)
        /\ StartsWithDash(args[passes[k].at + 2])
        /\ passes[k].argsUsed = 1

(* ----------------- the two spellings of one command line --------------- *)

\* values given to a parameter-taking option
Values ==
    { <<"1">>, <<>>, <<"f", "=", "1">>, <<"-", "f">>, <<"-", "1">>, <<"-">> }

PairSets ==
    OptionSets \cup
    { <<oFlag, oAll, oStr>>, <<oFail, oAll>>, <<oAll, oFail>>,
      <<oAll, oInt, oFlag>>, <<oEq, oFlag>> }

\* the full long names of the options with a parameter
ParamNames(opts) ==
    UNION {{AllNames(opts[o])[k] : k \in 1..Len(AllNames(opts[o]))} :
           o \in {x \in 1..Len(opts) : opts[x].HasParam}}

\* the short letters that stand for an option without parameter
FlagLetters(opts) ==
    {c \in {"f", "a", "s"} :
        /\ shortSearch(opts, <<c>>) # 0
        /\ ~opts[shortSearch(opts, <<c>>)].HasParam}

\* --<fullname>=<v> in one argument
EqualsArgs(nm, v) == <<DashDash \o nm \o <<"=">> \o v>>

\* --<fullname> <v> in two arguments
SpacedArgs(nm, v) == <<DashDash \o nm, v>>

\* the argument lists --<fullname>=<v> and -ab
PairArgs(opts) ==
    {EqualsArgs(nm, v) : nm \in ParamNames(opts), v \in Values}
    \cup {<<<<"-", a, b>>>> : a \in FlagLetters(opts), b \in FlagLetters(opts)}

\* -a -b for the token -ab
Separate(t) == <<<<"-", t[2]>>, <<"-", t[3]>>>>

InitPair ==
    /\ options \in PairSets
    /\ args \in PairArgs(options)
    /\ i = Start(options).i /\ errList = Start(options).errList
    /\ pc = Start(options).pc /\ n = Start(options).n
    /\ err = Start(options).err /\ calls = Start(options).calls
    /\ passes = Start(options).passes /\ visited = Start(options).visited
    /\ vals = Start(options).vals
    /\ ParseIdle /\ FormatIdle /\ DocIdle /\ HelpIdle

NextPair ==
    \/ LongOption
    \/ ShortOptions
    \/ EndOfArgs

SpecPair == InitPair /\ [][NextPair]_vars

\* ParseOptions has returned, or the model stopped following its loop
Finished == pc = "done" \/ spinning(Cur) >= MaxSpin

\* no two declared long names are equal
NoDuplicateNames(opts) ==
    \A o1, o2 \in 1..Len(opts) :
        \A k1 \in 1..Len(AllNames(opts[o1])), k2 \in 1..Len(AllNames(opts[o2])) :
            AllNames(opts[o1])[k1] = AllNames(opts[o2])[k2] => o1 = o2 /\ k1 = k2

\* no declared long name holds a '='
NoEqualsInNames(opts) ==
    \A o \in 1..Len(opts) :
        \A k \in 1..Len(AllNames(opts[o])) :
            \A c \in 1..Len(AllNames(opts[o])[k]) : AllNames(opts[o])[k][c] # "="

\* the full names and values of which the argument list is the spelling
\* --<fullname>=<v>
EqualsForm ==
    {nv \in ParamNames(options) \X Values : args = EqualsArgs(nv[1], nv[2])}

\* what a caller sees of a finished call: whether it returned, the error
\* and the bound variables
Outcome(s) == [pc |-> s.pc, err |-> s.err, vals |-> s.vals]

(* ------------------------------ C8 ------------------------------------- *)

ClusterForm ==
    /\ Len(args) = 1 /\ ShortToken(args[1]) /\ Len(args[1]) = 3
    /\ args[1][2] \in FlagLetters(options)
    /\ args[1][3] \in FlagLetters(options)

\* the setter of the option with short letter c returns no error
SetterSucceeds(c) ==
    SetValue(options[shortSearch(options, <<c>>)], <<c>>, <<>>, TRUE,
             FALSE).err = Nil

\* the setter invocations of a call, without the place of the token
Invocations(cs) ==
    [k \in 1..Len(cs) |->
        <<cs[k].opt, cs[k].name, cs[k].param, cs[k].noParam>>]

Target(x) == OptionError(x, "", <<>>, Nil)

\* every string an OptionError of the parser can carry for the options opts
Identities(opts) ==
    {unrecognized} \cup {on[2] : on \in Matching(opts, <<>>)}
        \cup {<<opts[o].Short>> : o \in 1..Len(opts)}

\* the options that declare the short letter c
WithLetter(opts, c) == {o \in 1..Len(opts) : opts[o].Short = c}

Mandatory(o) == options[o].HasParam /\ ~options[o].OptionalParam

\* pass k went over the last argument, and that argument is the long form
\* of exactly one option, which takes a mandatory parameter
LastLongMandatory(k) ==
    /\ passes[k].at = Len(args) - 1
    /\ UniquePrefixPass(k)
    /\ Mandatory(TheMatch(options, PrefixOf(k))[1])

\* the same for the short form: a token of one letter that exactly one
\* option declares
LastShortMandatory(k) ==
    /\ passes[k].at = Len(args) - 1
    /\ ShortToken(args[passes[k].at + 1])
    /\ Len(args[passes[k].at + 1]) = 2
    /\ Cardinality(WithLetter(options, args[passes[k].at + 1][2])) = 1
    /\ \A o \in WithLetter(options, args[passes[k].at + 1][2]) : Mandatory(o)

\* the identity the error of such a pass has to carry
MissingFor(k) ==
    IF LastLongMandatory(k) THEN TheMatch(options, PrefixOf(k))[2]
    ELSE <<args[passes[k].at + 1][2]>>

\* C11: when an option with a mandatory parameter (-s or --str) is the last
\* argument, the setter is not invoked, the token is counted as consumed,
\* and the error ParseOptions returns matches the OptionError of that option
\* (the letter for the short form, the full long name for the long form);
\* for a list of one argument it matches no other option and consumed is 1.
C11_MissingParameterAtEnd ==
    \A k \in 1..Len(passes) :
        (LastLongMandatory(k) \/ LastShortMandatory(k)) =>
            /\ passes[k].calls = <<>>
            /\ passes[k].argsUsed = 1
            /\ pc = "done" =>
                /\ n = Len(args)
                /\ errorsIs(err, Target(MissingFor(k)))
                /\ Len(args) = 1 =>
                       /\ n = 1
                       /\ \A y \in Identities(options) :
                              errorsIs(err, Target(y)) <=> y = MissingFor(k)

\* ParseOptions returned for a list that ends with a proper prefix of the
\* long name of a mandatory-parameter option, after an earlier error
C11_Witness ==
    /\ pc = "done" /\ Len(passes) = 2
    /\ LastLongMandatory(2)
    /\ PrefixOf(2) # MissingFor(2)
    /\ passes[1].err # Nil
    /\ err.type = "errorList"
    /\ errorsIs(err, Target(MissingFor(2)))

(* ------------------------------ C12 ------------------------------------ *)

\* C12: a bare "-" that the scan arrives at ends option parsing without
\* being consumed: ParseOptions returns, the count it returns is the index
\* of the "-", no setter is invoked for the "-" or for a later token, and
\* the "-" is the first of the remaining arguments.
C12_BareDashStops ==
    \A k \in visited :
        args[k + 1] = Dash =>
            /\ pc = "done"
            /\ n = k
            /\ \A c \in 1..Len(calls) : calls[c].tok < k
            /\ \A p \in 1..Len(passes) : passes[p].at < k
            /\ From(args, n) # <<>> /\ From(args, n)[1] = Dash

\* the scan arrived at a "-" that an option token follows
C12_Witness ==
    \E k \in visited :
        /\ args[k + 1] = Dash
        /\ k + 1 < Len(args)
        /\ ShortToken(args[k + 2])
        /\ pc = "done"

(* ------------------------------ C13 ------------------------------------ *)

\* longest argument list of the specification of the example lists
MaxExampleArgs == 4

\* the tokens of the lists of TestParseOptions, and the two terminators
ExampleTokens ==
    { <<"-", "-", "s">>, foo, <<"-", "-", "f", "l">>, bar,
      <<"-", "f", "s">>, DashDash, Dash }

ExampleLists == UNION {[1..k -> ExampleTokens] : k \in 0..MaxExampleArgs}

\* the list {"--s", "foo", "--fl", "bar"} of the test
ExampleArgs == << <<"-", "-", "s">>, foo, <<"-", "-", "f", "l">>, bar >>

InitExample ==
    /\ options \in OptionSets
    /\ args \in ExampleLists
    /\ i = Start(options).i /\ errList = Start(options).errList
    /\ pc = Start(options).pc /\ n = Start(options).n
    /\ err = Start(options).err /\ calls = Start(options).calls
    /\ passes = Start(options).passes /\ visited = Start(options).visited
    /\ vals = Start(options).vals
    /\ ParseIdle /\ FormatIdle /\ DocIdle /\ HelpIdle

SpecExample == InitExample /\ [][Next]_vars

\* the argument at index j was handled as an option token, or is the "--"
\* that ended the scan
OptionToken(j) ==
    /\ StartsWithDash(args[j + 1])
    /\ \/ \E p \in 1..Len(passes) : passes[p].at = j
       \/ args[j + 1] = DashDash /\ j \in visited

\* the argument at index j was consumed as the parameter of an option
ParameterToken(j) ==
    \E p \in 1..Len(passes) :
        /\ passes[p].at < j /\ j < passes[p].at + passes[p].argsUsed
        /\ \E c \in 1..Len(passes[p].calls) :
               /\ ~passes[p].calls[c].noParam
               /\ passes[p].calls[c].param = args[j + 1]

\* the scan was ended by a "--" or a "-"
TerminatorMet == \E k \in visited : args[k + 1] \in {DashDash, Dash}

OptionsMatching(opts, p) == {on[1] : on \in Matching(opts, p)}

\* C14: matching is never first-match-wins: a long prefix that is a prefix
\* of names of more than one declared option, and a short letter that more
\* than one option declares, are reported as errors and invoke no setter.
C14_NeverFirstMatch ==
    \A k \in 1..Len(passes) :
        LET ps == passes[k]
            t  == args[ps.at + 1]
        IN  /\ (/\ PlainLong(t)
                /\ Cardinality(OptionsMatching(options, PrefixOf(k))) > 1) =>
                   ps.calls = <<>> /\ ps.err # Nil
            /\ ShortToken(t) =>
                   /\ \A c \in 1..Len(ps.calls) :
                          Cardinality(WithLetter(options,
                                                 ps.calls[c].name[1])) = 1
                   /\ Cardinality(WithLetter(options, t[2])) > 1 =>
                          ps.err # Nil

(* ------------------------------ C15 ------------------------------------ *)

\* C15: an ambiguity is signalled only when names of more than one option
\* start with the prefix: a prefix of one or several long names (name and
\* aliases) of one option, and of no name of another option, resolves to
\* that option -- the pass consumes the token, reports no unrecognized
\* option and invokes no setter but that option's.
C15_AliasesNotAmbiguous ==
    \A k \in 1..Len(passes) :
        (/\ PlainLong(args[passes[k].at + 1])
         /\ Cardinality(OptionsMatching(options, PrefixOf(k))) = 1) =>
            /\ passes[k].argsUsed >= 1
            /\ passes[k].err # Nil => passes[k].err.Option # unrecognized
            /\ \A c \in 1..Len(passes[k].calls) :
                   passes[k].calls[c].opt \in
                       OptionsMatching(options, PrefixOf(k))

(* ------------------------------ C16 ------------------------------------ *)

\* the error the setter returned in the invocation c (nil if it succeeded)
SetterError(c) ==
    SetValue(options[c.opt], c.name, c.param, c.noParam,
             InitialValue(options[c.opt])).err

\* the errors an error value holds: the elements of a list, or the value
Elements(e) ==
    IF e = Nil THEN {}
    ELSE IF e.type = "errorList" THEN {e.list[k] : k \in 1..Len(e.list)}
    ELSE {e}

\* C16: whenever a setter returned an error during ParseOptions, the error
\* ParseOptions returns is non-nil and holds an OptionError whose Option is
\* the option as it was named in the invocation and whose wrapped error is
\* the error of the setter.
C16_SetterErrorReturned ==
    pc = "done" =>
        \A c \in 1..Len(calls) :
            SetterError(calls[c]) # Nil =>
                /\ err # Nil
                /\ errorsIs(err, Target(calls[c].name))
                /\ \E e \in Elements(err) :
                       /\ e.type = "OptionError"
                       /\ e.Option = calls[c].name
                       /\ e.Wrapped = SetterError(calls[c])

(* ------------------------------ C17 ------------------------------------ *)

\* C17: flattening the list of errors collected by the scan gives nil for
\* no error, the error itself for one and the list for several; and for a
\* list L of several errors and every option identity x,
\* errors.Is(L, &OptionError{Option: x}) is true exactly if some element of
\* L, at whatever position, is an OptionError of x.
C17_FlattenAndIs ==
    /\ Len(errList) = 0 => Flatten(errList) = Nil
    /\ Len(errList) = 1 => Flatten(errList) = errList[1]
    /\ Len(errList) > 1 =>
           /\ Flatten(errList).type = "errorList"
           /\ Flatten(errList).list = errList
           /\ \A x \in Identities(options) \cup {<<"x">>} :
                  errorsIs(Flatten(errList), Target(x)) <=>
                      \E k \in 1..Len(errList) :
                          /\ errList[k].type = "OptionError"
                          /\ errList[k].Option = x

\* the scan collected two errors of different options, and the list matches
\* the option of the second
C17_Witness ==
    /\ Len(errList) = 2
    /\ errList[1].Option # errList[2].Option
    /\ errorsIs(Flatten(errList), Target(errList[2].Option))
    /\ ~errorsIs(errList[1], Target(errList[2].Option))

(* --------------------- vocabulary of Parse and Run --------------------- *)

\* the count n after the option parsing of level j
After(j) == levels[j].at + levels[j].k

\* the option parsing of level j succeeded and Parse has dealt with the
\* argument that follows it
Decided(j) ==
    /\ levels[j].err = Nil
    /\ After(j) < Len(cmdline)
    /\ j < Len(levels) \/ ppc \in {"options", "returned", "exit"}

\* the argument that follows the options of level j
NextToken(j) == cmdline[After(j) + 1]

\* the direct subcommands of the command of level j whose names start
\* with the argument that follows its options
SubMatches(j) ==
    {k \in 1..Len(Node(root, levels[j].cmd).Subcommands) :
        HasPrefix(Node(root, levels[j].cmd).Subcommands[k].Name,
                  NextToken(j))}

Returned == ppc \in {"returned", "exit"}

(* ------------------------------ C18 ------------------------------------ *)

\* C18: after the option parsing of a level succeeded, a next argument that
\* is a prefix of the name of exactly one direct subcommand makes Parse
\* consume it (n advances by one) and go on with that subcommand, which is
\* appended to the chain; for the root foo with the only subcommand version
\* the list [ver] resolves to the chain [foo, version].
C18_UniquePrefixDescends ==
    /\ \A j \in 1..Len(levels) :
           (Decided(j) /\ Cardinality(SubMatches(j)) = 1) =>
               LET sub == Append(levels[j].cmd,
                                 CHOOSE k \in SubMatches(j) : TRUE)
               IN  IF j < Len(levels)
                   THEN /\ levels[j + 1].cmd = sub
                        /\ levels[j + 1].at = After(j) + 1
                        /\ commands[j + 1] = sub
                   ELSE ppc = "options" /\ cmd = sub /\ pn = After(j) + 1
    /\ (Returned /\ root = testRoot /\ cmdline = << <<"v", "e", "r">> >>) =>
           /\ commands = << <<>>, <<1>> >>
           /\ Node(root, commands[2]).Name = version
           /\ pn = 1 /\ perr = Nil

\* Run of the example: the chain is [foo, version] and version was executed
C18_Witness ==
    /\ ppc = "exit"
    /\ root = testRoot /\ cmdline = << <<"v", "e", "r">> >>
    /\ commands = << <<>>, <<1>> >>
    /\ Len(execs) = 1 /\ execs[1].cmd = <<1>>

(* ------------------------------ C19 ------------------------------------ *)

\* C19: if the argument after the options of a level is a prefix of the
\* names of more than one direct subcommand, Parse returns the
\* unrecognized-command error at once: the chain ends with the command of
\* that level, the argument is not consumed, no deeper level is entered
\* (and Run returns the error without executing anything).
C19_AmbiguousCommand ==
    \A j \in 1..Len(levels) :
        (Decided(j) /\ Cardinality(SubMatches(j)) > 1) =>
            /\ Returned
            /\ j = Len(levels)
            /\ perr = unrecognizedCommand(NextToken(j))
            /\ Len(commands) = j /\ commands[j] = levels[j].cmd
            /\ pn = After(j)
            /\ ppc = "exit" => rerr = perr /\ execs = <<>>

\* Run returned the unrecognized-command error found at the second level
C19_Witness ==
    /\ ppc = "exit"
    /\ Len(levels) = 2
    /\ Decided(2) /\ Cardinality(SubMatches(2)) = 2
    /\ NextToken(2) # <<>>
    /\ rerr.type = "CommandError" /\ rerr.Name = unrecognized

(* ------------------------------ C20 ------------------------------------ *)

\* C20: if the argument after the options of a level matches no direct
\* subcommand, Parse returns without error and without consuming it: the
\* chain ends with the command of that level and n is the index of the
\* argument; Run then calls the Exec of that command (if it has one) once,
\* with that argument and everything after it, unchanged.
C20_UnmatchedLeftToExec ==
    \A j \in 1..Len(levels) :
        (Decided(j) /\ SubMatches(j) = {}) =>
            /\ Returned
            /\ j = Len(levels)
            /\ perr = Nil
            /\ Len(commands) = j /\ commands[j] = levels[j].cmd
            /\ pn = After(j)
            /\ (ppc = "exit" /\ Node(root, commands[j]).Exec) =>
                   /\ Len(execs) = 1
                   /\ execs[1].cmd = commands[j]
                   /\ execs[1].args = SubSeq(cmdline, After(j) + 1,
                                             Len(cmdline))
                   /\ execs[1].args[1] = NextToken(j)

\* the Exec of a subcommand was called with the unmatched argument and the
\* argument after it
C20_Witness ==
    /\ ppc = "exit"
    /\ Len(levels) = 2
    /\ Decided(2) /\ SubMatches(2) = {}
    /\ Len(execs) = 1 /\ Len(execs[1].args) = 2
    /\ execs[1].args[1] = cmdline[2]

(* ------------------------------ C21 ------------------------------------ *)

\* C21: when option parsing failed at a level -- ParseOptions was called
\* there, came back and had found an error -- Parse returns at once with
\* the chain ending at the command of that level and with an error: no
\* subcommand is matched after the failure, and Run returns the error
\* without invoking an Exec.
C21_FailedLevelIsTerminal ==
    \A j \in 1..Len(levels) :
        (levels[j].errList # <<>> /\ ~(j = Len(levels) /\ ppc = "hang")) =>
            /\ j = Len(levels)
            /\ Returned
            /\ perr # Nil
            /\ Len(commands) = j /\ commands[j] = levels[j].cmd
            /\ cmd = levels[j].cmd
            /\ ppc = "exit" => rerr = perr /\ execs = <<>>

(* ------------------------------ C22 ------------------------------------ *)

\* the argument at which level j began is an option token or "--"
OptionLooking(j) ==
    /\ levels[j].at < Len(cmdline)
    /\ StartsWithDash(cmdline[levels[j].at + 1])
    /\ cmdline[levels[j].at + 1] # Dash

LastCommand == commands[Len(commands)]

\* C23: Run invokes no Exec before Parse has returned; when Parse returned
\* an error Run returns it and invokes nothing; otherwise it invokes the
\* Exec of the last command of the chain, and no other, exactly once with
\* args[n:], or, if that command has no Exec, invokes nothing and returns
\* a CommandError that names that command.
C23_ExecOfLastCommandOnce ==
    /\ ppc # "exit" => execs = <<>>
    /\ ppc = "exit" =>
           IF perr # Nil THEN execs = <<>> /\ rerr = perr
           ELSE IF Node(root, LastCommand).Exec
           THEN /\ execs = << [cmd |-> LastCommand,
                               args |-> SubSeq(cmdline, pn + 1,
                                               Len(cmdline))] >>
                /\ rerr \in ExecResults
           ELSE /\ execs = <<>>
                /\ rerr.type = "CommandError"
                /\ rerr.Name = Node(root, LastCommand).Name
                /\ rerr.Wrapped = Nil

\* Run executed a subcommand with one argument; the root, which comes
\* before it in the chain, has an Exec too
C23_Witness ==
    /\ ppc = "exit"
    /\ Len(commands) = 2
    /\ Node(root, commands[1]).Exec
    /\ Len(execs) = 1 /\ execs[1].cmd = commands[2]
    /\ Len(execs[1].args) = 1

(* ------------------------------ C24 ------------------------------------ *)

\* C24: the error of ParseOptions at the root is returned by Parse as it
\* is; the error of ParseOptions at a deeper level is returned wrapped in a
\* CommandError whose Name is the name of the command of that level; the
\* original error is what Unwrap yields, and errors.Is still finds every
\* option error in it.
C24_WrappedBelowRoot ==
    (Returned /\ levels[Len(levels)].err # Nil) =>
        LET lv == levels[Len(levels)]
        IN  IF lv.cmd = <<>> THEN perr = lv.err
            ELSE /\ perr.type = "CommandError"
                 /\ perr.Name = Node(root, lv.cmd).Name
                 /\ Unwrap(perr) = lv.err
                 /\ \A e \in Elements(lv.err) :
                        errorsIs(perr, Target(e.Option))
                 /\ ~errorsIs(perr, Target(<<"x">>))

\* Parse returned two option errors found at the second level
C24_Witness ==
    /\ Returned
    /\ Len(levels) = 2
    /\ Len(levels[2].errList) = 2
    /\ perr.type = "CommandError"
    /\ perr.Wrapped.type = "errorList"

(* ---------------------------- ResetOptions ----------------------------- *)

\* the decimal digits of a natural number (fmt.Sprintf("%d", n))
Digit(d) ==
    CASE d = 0 -> "0" [] d = 1 -> "1" [] d = 2 -> "2" [] d = 3 -> "3"
      [] d = 4 -> "4" [] d = 5 -> "5" [] d = 6 -> "6" [] d = 7 -> "7"
      [] d = 8 -> "8" [] OTHER -> "9"

RECURSIVE FormatNat(_)
FormatNat(k) ==
    IF k < 10 THEN <<Digit(k)>>
    ELSE Append(FormatNat(k \div 10), Digit(k % 10))

FormatInt(k) == IF k < 0 THEN <<"-">> \o FormatNat(0 - k) ELSE FormatNat(k)

\* The constructors, called when the bound variable holds v.  To the
\* fields of MkOption they add Default, ResetValue (is it non-nil?) and
\* Initial, the value of the variable when the constructor returns.
BoolOption(name, short, v) ==
    MkOption(name, short, <<>>, FALSE, FALSE, "bool") @@
        [Default |-> <<>>, ResetValue |-> TRUE, Initial |-> FALSE]

StringOption(name, short, v) ==
    MkOption(name, short, <<>>, TRUE, FALSE, "string") @@
        [Default |-> v, ResetValue |-> FALSE, Initial |-> v]

IntOption(name, short, v) ==
    MkOption(name, short, <<>>, TRUE, FALSE, "int") @@
        [Default |-> IF v # 0 THEN FormatInt(v) ELSE <<>>,
         ResetValue |-> FALSE, Initial |-> v]

\* an option written by the caller, without ResetValue, whose SetValue
\* returns an error
FailOption(name, short, v) ==
    MkOption(name, short, <<>>, FALSE, FALSE, "fail") @@
        [Default |-> <<>>, ResetValue |-> FALSE, Initial |-> v]

resetName == <<"<", "r", "e", "s", "e", "t", ">">>

\* variant of Reset: ResetValue flips the variable
ResetFlip(opt, val) ==
    IF opt.ResetValue THEN [val |-> ~val, err |-> Nil]
    ELSE SetValue(opt, resetName, opt.Default, FALSE, val)

\* opt.Reset() on the bound variable val: the new value and the error.
\* The only ResetValue of the package is that of BoolOption (*f = false).
Reset(opt, val) ==
    IF opt.ResetValue THEN [val |-> FALSE, err |-> Nil]
    ELSE SetValue(opt, resetName, opt.Default, FALSE, val)

\* the loop of ResetOptions from the option k on: the bound variables and
\* the error list
RECURSIVE resetLoop(_, _, _, _)
resetLoop(opts, k, v, errs) ==
    IF k > Len(opts) THEN [vals |-> v, errList |-> errs]
    ELSE LET r == Reset(opts[k], v[k])
         IN  resetLoop(opts, k + 1, [v EXCEPT ![k] = r.val],
                       IF r.err # Nil THEN Append(errs, r.err) ELSE errs)

\* ResetOptions(opts) on the bound variables v: the variables and the error
\* returned
ResetOptions(opts, v) ==
    [vals |-> resetLoop(opts, 1, v, <<>>).vals,
     err |-> Flatten(resetLoop(opts, 1, v, <<>>).errList)]

\* ---- inputs

foobar == <<"f", "o", "o", "b", "a", "r">>

BoolValues == {FALSE, TRUE}
StringValues == {<<>>, <<"1">>, foobar}
IntValues == {0, 1, 11, -1}

\* the values a variable bound to opt can hold
ValuesOf(opt) ==
    CASE opt.setter = "string" -> StringValues
      [] opt.setter = "int" -> IntValues
      [] OTHER -> BoolValues

\* option sets as constructed: that of TestResetOptions (flag/f, str/s)
\* with every initial value, and sets with an integer option and with an
\* option of the caller
ResetSets ==
    {<<BoolOption(flag, "f", b), StringOption(str, "s", v)>> :
        b \in BoolValues, v \in StringValues}
    \cup {<<BoolOption(flag, "f", b), IntOption(str, "s", k)>> :
            b \in BoolValues, k \in IntValues}
    \cup {<<IntOption(all, "a", k), StringOption(str, "s", v)>> :
            k \in IntValues, v \in StringValues}
    \cup {<<FailOption(flag, "f", b), StringOption(str, "s", v)>> :
            b \in BoolValues, v \in StringValues}

\* ---- the state machine: the options are constructed, the program
\* assigns the bound variables, ResetOptions is called twice in a row

InitReset ==
    /\ options \in ResetSets
    /\ vals = [o \in 1..Len(options) |-> options[o].Initial]
    /\ pc = "constructed"
    /\ err = Nil
    /\ args = <<>> /\ i = 0 /\ errList = <<>> /\ n = 0
    /\ calls = <<>> /\ passes = <<>> /\ visited = {}
    /\ ParseIdle /\ FormatIdle /\ DocIdle /\ HelpIdle

\* the program gives the bound variables some values (TestResetOptions:
\* f = true; str = "foobar"); every set of ResetSets holds two options
Assign ==
    /\ pc = "constructed"
    /\ \E a \in ValuesOf(options[1]), b \in ValuesOf(options[2]) :
           vals' = <<a, b>>
    /\ pc' = "assigned"
    /\ UNCHANGED <<options, args, i, errList, n, err, calls, passes, visited>>
    /\ UNCHANGED <<pvars, fvars, dvars, hvars>>

\* err := ResetOptions(options)
CallResetOptions ==
    /\ pc \in {"assigned", "reset"}
    /\ vals' = ResetOptions(options, vals).vals
    /\ err' = ResetOptions(options, vals).err
    /\ pc' = IF pc = "assigned" THEN "reset" ELSE "reset again"
    /\ UNCHANGED <<options, args, i, errList, n, calls, passes, visited>>
    /\ UNCHANGED <<pvars, fvars, dvars, hvars>>

NextReset == Assign \/ CallResetOptions

SpecReset == InitReset /\ [][NextReset]_vars

(* ------------------------------ C25 ------------------------------------ *)

\* C25: after ResetOptions returned, every bound variable holds its
\* default -- false for a BoolOption, the value the variable had when the
\* option was constructed for a StringOption and an IntOption -- whatever
\* it held before, and the error returned is nil.
C25_ResetRestoresDefaults ==
    pc = "reset" =>
        \A o \in 1..Len(options) :
            options[o].setter \in {"bool", "string", "int"} =>
                /\ vals[o] = options[o].Initial
                /\ (\A q \in 1..Len(options) : options[q].setter # "fail") =>
                       err = Nil

(* ------------------------------ C26 ------------------------------------ *)

\* C26: ResetOptions called right after ResetOptions changes no bound
\* variable and returns the same error (or nil) as the first call.
C26_ResetIdempotent ==
    [][(pc = "reset" /\ pc' = "reset again") =>
           (vals' = vals /\ err' = err)]_vars

\* ResetOptions was called twice on variables that had been assigned
\* values different from their defaults, one of them a non-empty default
C26_Witness ==
    /\ pc = "reset again"
    /\ err = Nil
    /\ options[1].setter = "bool" /\ options[2].setter = "string"
    /\ options[2].Initial = <<"1">>
    /\ vals = <<FALSE, <<"1">>>>


(* ===================== formatText and its lexer ======================== *)
\* The formatter of descriptions: formatText(w, s, lineWidth, indent) reads
\* the tokens of the lexer l (words, paragraph breaks, verbatim lines) and
\* writes the reflowed text.  A text is a sequence of one-character strings;
\* the writer never fails (the callers write to a strings.Builder or to the
\* output of the command), so that n is the length of what was written.

\* the longest text formatted
MaxText == 6

\* unicode.IsSpace on the runes of the texts
IsSpace(c) == c \in {" ", "\t", "\n"}

\* the rune 0 that readRune returns when there is nothing to read
NUL == "NUL"

\* token{typ: tError}, which is also the zero token{}
tErrorToken == [typ |-> "tError", val |-> <<>>]

\* lex(r) for a reader over the text s: the reader is the text, the position
\* in it and whether the last operation on it was a successful ReadRune
lex(s) ==
    [s |-> s, pos |-> 0, lastRead |-> FALSE, buf |-> <<>>,
     token |-> tErrorToken, err |-> "nil", state |-> "nil"]

\* l.readRune(): the lexer after the call and the rune returned
readRune(l) ==
    IF l.err # "nil" THEN [l |-> l, r |-> NUL]
    ELSE IF l.pos < Len(l.s)
         THEN [l |-> [l EXCEPT !.pos = l.pos + 1, !.lastRead = TRUE],
               r |-> l.s[l.pos + 1]]
         ELSE [l |-> [l EXCEPT !.err = "EOF", !.lastRead = FALSE], r |-> NUL]

\* l.unreadRune(): bufio's UnreadRune fails unless the last operation was a
\* successful ReadRune
unreadRune(l) ==
    IF l.err # "nil" THEN l
    ELSE IF l.lastRead
         THEN [l EXCEPT !.pos = l.pos - 1, !.lastRead = FALSE]
         ELSE [l EXCEPT !.err = "ErrInvalidUnreadRune"]

\* what a state function leaves: the lexer and the state it returns
To(l, next) == [l |-> l, next |-> next]

\* l.buf = append(l.buf, r)
appendBuf(l, r) == [l EXCEPT !.buf = Append(l.buf, r)]

\* a mutant of setToken that leaves no token
setTokenNone(l, typ) == l

\* l.token = token{typ: typ, val: string(l.buf)}
setToken(l, typ) ==
    [l EXCEPT !.token = [typ |-> typ,
                         val |-> IF typ = "tParagraph" THEN <<>> ELSE l.buf]]

startState(l) ==
    LET rd == readRune(l)
    IN  IF rd.l.err # "nil" THEN To(rd.l, "nil")
        ELSE IF rd.r = "\n" THEN To(rd.l, "nl1State")
        ELSE IF IsSpace(rd.r) THEN To(rd.l, "wsState")
        ELSE To(appendBuf(rd.l, rd.r), "wordState")

nl1State(l) ==
    LET rd == readRune(l)
    IN  IF rd.l.err # "nil" THEN To(rd.l, "nil")
        ELSE IF rd.r = "\n" THEN To(rd.l, "paragraphState")
        ELSE IF IsSpace(rd.r) THEN To(rd.l, "verbatim1State")
        ELSE To(appendBuf(rd.l, rd.r), "wordState")

RECURSIVE wsState(_)
wsState(l) ==
    LET rd == readRune(l)
    IN  IF rd.l.err # "nil" THEN To(rd.l, "nil")
        ELSE IF rd.r = "\n" THEN To(rd.l, "nl1State")
        ELSE IF IsSpace(rd.r) THEN wsState(rd.l)
        ELSE To(appendBuf(rd.l, rd.r), "wordState")

\* a mutant of verbatim1State for which an indented line is a line of words
verbatim1StateWords(l) == wsState(l)

RECURSIVE verbatim1State(_)
verbatim1State(l) ==
    LET rd == readRune(l)
    IN  IF rd.l.err # "nil" THEN To(rd.l, "nil")
        ELSE IF rd.r = "\n" THEN To(rd.l, "nl1State")
        ELSE IF IsSpace(rd.r) THEN verbatim1State(rd.l)
        ELSE To(appendBuf(rd.l, rd.r), "verbatimState")

RECURSIVE verbatimState(_)
verbatimState(l) ==
    LET rd == readRune(l)
    IN  IF rd.l.err # "nil" THEN To(setToken(rd.l, "tVerbatim"), "nil")
        ELSE IF rd.r = "\n" THEN To(setToken(rd.l, "tVerbatim"), "nl1State")
        ELSE verbatimState(appendBuf(rd.l, rd.r))

RECURSIVE wordState(_)
wordState(l) ==
    LET rd == readRune(l)
    IN  IF rd.l.err # "nil" THEN To(setToken(rd.l, "tWord"), "nil")
        ELSE IF rd.r = "\n" \/ IsSpace(rd.r)
             THEN To(setToken(unreadRune(rd.l), "tWord"), "nil")
        ELSE wordState(appendBuf(rd.l, rd.r))

RECURSIVE paragraphState(_)
paragraphState(l) ==
    LET rd == readRune(l)
    IN  IF rd.l.err # "nil" THEN To(setToken(rd.l, "tParagraph"), "nil")
        ELSE IF rd.r = "\n" THEN paragraphState(rd.l)
        ELSE To(setToken(unreadRune(rd.l), "tParagraph"), "nl1State")

\* l.state(l)
callState(l) ==
    CASE l.state = "startState" -> startState(l)
      [] l.state = "nl1State" -> nl1State(l)
      [] l.state = "wsState" -> wsState(l)
      [] l.state = "verbatim1State" -> verbatim1State(l)
      [] l.state = "verbatimState" -> verbatimState(l)
      [] l.state = "wordState" -> wordState(l)
      [] l.state = "paragraphState" -> paragraphState(l)

\* the loop of nextToken; the panic is the error "panic: nil state"
RECURSIVE nextTokenLoop(_)
nextTokenLoop(l) ==
    LET c  == callState(l)
        l1 == [c.l EXCEPT !.state = c.next]
    IN  IF l1.token.typ # "tError"
        THEN [l |-> l1, t |-> l1.token, err |-> "nil"]
        ELSE IF l1.err # "nil"
             THEN [l |-> l1, t |-> tErrorToken, err |-> l1.err]
        ELSE IF l1.state = "nil"
             THEN [l |-> l1, t |-> tErrorToken, err |-> "panic: nil state"]
        ELSE nextTokenLoop(l1)

\* l.nextToken(): the lexer after the call, the token and the error
nextToken(l) ==
    IF l.err # "nil" THEN [l |-> l, t |-> tErrorToken, err |-> l.err]
    ELSE nextTokenLoop([l EXCEPT !.buf = <<>>, !.token = tErrorToken,
                                 !.state = IF l.state = "nil"
                                           THEN "startState" ELSE l.state])

\* tokenize(s) of the tests: the tokens up to the end of the text
RECURSIVE tokenizeFrom(_, _)
tokenizeFrom(l, a) ==
    LET nt == nextToken(l)
    IN  IF nt.err # "nil" THEN a ELSE tokenizeFrom(nt.l, Append(a, nt.t))

tokenize(s) == tokenizeFrom(lex(s), <<>>)

(* ------------------------- formatText ---------------------------------- *)

verbatimIndent == <<" ", " ">>

\* the number of newlines in a text
RECURSIVE Newlines(_)
Newlines(o) ==
    IF o = <<>> THEN 0
    ELSE Newlines(Tail(o)) + (IF Head(o) = "\n" THEN 1 ELSE 0)

\* a mutant of the condition below under which no line is ever broken
mustWrapNever(col, size, width) == FALSE

\* the condition under which the word starts a new line
mustWrap(col, size, width) == col > 0 /\ col + size > width

\* the inputs: texts of words, blanks and newlines, widths that make short
\* lines wrap (zero and a negative width stand for the default), and the
\* indents
Runes == {"a", " ", "\n"}

Texts == UNION {[1..k -> Runes] : k \in 0..MaxText}

Widths == {-1, 0, 3, 4}

Indents == {<<>>, <<" ">>}

\* formatText(w, s, lineWidth, indent) was called
InitFormat ==
    /\ ftext \in Texts /\ lineWidth \in Widths /\ indent \in Indents
    /\ fwidth = lineWidth
    /\ lx = lex(<<>>) /\ column = 0 /\ out = <<>>
    /\ fpc = "called" /\ ferr = "nil" /\ ftokens = <<>> /\ verbatims = {}
    /\ OptionsIdle /\ ParseIdle /\ DocIdle /\ HelpIdle

\* the default width, the lexer and column
FormatEnter ==
    /\ fpc = "called"
    /\ lineWidth' = IF lineWidth <= 0 THEN 80 ELSE lineWidth
    /\ lx' = lex(ftext)
    /\ column' = 0
    /\ fpc' = "loop"
    /\ UNCHANGED <<ftext, fwidth, indent, out, ferr, ftokens, verbatims>>
    /\ UNCHANGED <<ovars, pvars, dvars, hvars>>

\* nextToken returned an error: at the end of the text the open line is
\* closed
FormatReturn ==
    /\ fpc = "loop"
    /\ LET nt == nextToken(lx)
       IN  /\ nt.err # "nil"
           /\ lx' = nt.l
           /\ IF nt.err # "EOF"
              THEN ferr' = nt.err /\ out' = out
              ELSE /\ ferr' = "nil"
                   /\ out' = IF column > 0 THEN Append(out, "\n") ELSE out
    /\ fpc' = "returned"
    /\ UNCHANGED <<ftext, fwidth, lineWidth, indent, column, ftokens,
                   verbatims>>
    /\ UNCHANGED <<ovars, pvars, dvars, hvars>>

\* case tParagraph
FormatParagraph ==
    /\ fpc = "loop"
    /\ LET nt == nextToken(lx)
       IN  /\ nt.err = "nil" /\ nt.t.typ = "tParagraph"
           /\ lx' = nt.l
           /\ ftokens' = Append(ftokens, nt.t)
    /\ out' = IF column = 0 THEN Append(out, "\n") ELSE out \o <<"\n", "\n">>
    /\ column' = 0
    /\ UNCHANGED <<ftext, fwidth, lineWidth, indent, fpc, ferr, verbatims>>
    /\ UNCHANGED <<ovars, pvars, dvars, hvars>>

\* case tVerbatim
FormatVerbatim ==
    /\ fpc = "loop"
    /\ LET nt == nextToken(lx)
           o1 == IF column > 0 THEN Append(out, "\n") ELSE out
       IN  /\ nt.err = "nil" /\ nt.t.typ = "tVerbatim"
           /\ lx' = nt.l
           /\ ftokens' = Append(ftokens, nt.t)
           /\ out' = o1 \o indent \o verbatimIndent \o nt.t.val \o <<"\n">>
           /\ verbatims' = verbatims \cup {Newlines(o1) + 1}
    /\ column' = IF column > 0 THEN 0 ELSE column
    /\ UNCHANGED <<ftext, fwidth, lineWidth, indent, fpc, ferr>>
    /\ UNCHANGED <<ovars, pvars, dvars, hvars>>

\* a mutant of wordIndent that writes no blank between two words
wordIndentNone(col) == IF col = 0 THEN indent ELSE <<>>

\* what is written before a word that stays on the line: the indent at the
\* start of a line, a blank after a word
wordIndent(col) == IF col = 0 THEN indent ELSE <<" ">>

\* case tWord
FormatWord ==
    /\ fpc = "loop"
    /\ LET nt    == nextToken(lx)
           val   == nt.t.val
           size  == (IF column = 0 THEN Len(indent) ELSE 1) + Len(val)
           first == wordIndent(column)
       IN  /\ nt.err = "nil" /\ nt.t.typ = "tWord"
           /\ lx' = nt.l
           /\ ftokens' = Append(ftokens, nt.t)
           /\ IF mustWrap(column, size, lineWidth)
              THEN /\ out' = out \o <<"\n">> \o indent \o val
                   /\ column' = Len(indent) + Len(val)
              ELSE /\ out' = out \o first \o val
                   /\ column' = column + size
    /\ UNCHANGED <<ftext, fwidth, lineWidth, indent, fpc, ferr, verbatims>>
    /\ UNCHANGED <<ovars, pvars, dvars, hvars>>

NextFormat ==
    \/ FormatEnter
    \/ FormatReturn
    \/ FormatParagraph
    \/ FormatVerbatim
    \/ FormatWord

SpecFormat == InitFormat /\ [][NextFormat]_vars


(* ------------------ the output of formatText, by lines ----------------- *)

\* the lines of a text: what stands before each newline, and what follows
\* the last newline when the text does not end with one
RECURSIVE SplitLines(_, _, _)
SplitLines(o, cur, acc) ==
    IF o = <<>> THEN (IF cur = <<>> THEN acc ELSE Append(acc, cur))
    ELSE IF Head(o) = "\n" THEN SplitLines(Tail(o), <<>>, Append(acc, cur))
    ELSE SplitLines(Tail(o), Append(cur, Head(o)), acc)

OutLines == SplitLines(out, <<>>, <<>>)

\* the words of a line, as strings.Fields gives them
RECURSIVE FieldsOf(_, _, _)
FieldsOf(line, cur, acc) ==
    IF line = <<>> THEN (IF cur = <<>> THEN acc ELSE Append(acc, cur))
    ELSE IF Head(line) = " "
         THEN FieldsOf(Tail(line), <<>>,
                       IF cur = <<>> THEN acc ELSE Append(acc, cur))
    ELSE FieldsOf(Tail(line), Append(cur, Head(line)), acc)

Fields(line) == FieldsOf(line, <<>>, <<>>)

\* the words written so far, line by line, the verbatim lines left out
RECURSIVE WordsFrom(_)
WordsFrom(k) ==
    IF k > Len(OutLines) THEN <<>>
    ELSE (IF k \in verbatims THEN <<>> ELSE Fields(OutLines[k]))
         \o WordsFrom(k + 1)

\* the values of the word tokens read so far
RECURSIVE WordTokens(_)
WordTokens(k) ==
    IF k > Len(ftokens) THEN <<>>
    ELSE (IF ftokens[k].typ = "tWord" THEN <<ftokens[k].val>> ELSE <<>>)
         \o WordTokens(k + 1)

\* line k holds the indent and one word
SingleWord(k) ==
    /\ Len(Fields(OutLines[k])) = 1
    /\ OutLines[k] = indent \o Fields(OutLines[k])[1]

\* every line of words is at most w long or holds a single word, and the
\* words written are the words read, whole and in order
WithinWidth(w) ==
    /\ \A k \in 1..Len(OutLines) :
           (/\ k \notin verbatims
            /\ Fields(OutLines[k]) # <<>>
            /\ Len(OutLines[k]) > w) => SingleWord(k)
    /\ WordsFrom(1) = WordTokens(1)

\* C27 (as stated): no line of words written by formatText is longer than
\* the width formatText was called with, the indent included, unless it
\* holds a single word, which is then alone on its line and whole.
C27_WithinConfiguredWidth == WithinWidth(fwidth)

\* C27 (amended): no line of words written by formatText is longer than the
\* width in effect, which is the width formatText was called with when that
\* is positive and 80 otherwise, the indent included, unless it holds a
\* single word, which is then alone on its line and whole.
C27_WithinWidthInEffect == WithinWidth(IF fwidth <= 0 THEN 80 ELSE fwidth)

\* a text of two words and no break was formatted for the width 3 with an
\* indent: the first word with the indent is longer than the width and
\* stands alone, the second was moved to a line of its own
C27_Witness ==
    /\ fpc = "returned" /\ fwidth = 3 /\ indent # <<>>
    /\ Len(ftokens) = 2 /\ Len(OutLines) = 2
    /\ \A k \in 1..2 : ftokens[k].typ = "tWord"
    /\ Len(OutLines[1]) > fwidth /\ SingleWord(1) /\ SingleWord(2)

\* C28: the output of formatText never holds two blank lines in
\* succession, whatever blank and whitespace-only lines the text holds
\* between its paragraphs.
C28_NoTwoBlankLines ==
    \A k \in 1..(Len(out) - 2) :
        ~(out[k] = "\n" /\ out[k + 1] = "\n" /\ out[k + 2] = "\n")

\* C29: the output of formatText does not start with a blank line, also
\* when the text starts with blank lines.
C29_NoLeadingBlankLine == out = <<>> \/ out[1] # "\n"

\* C30: what formatText has written when it returns ends with at most one
\* newline, also when the text ends with blank lines.
C30_OneTrailingNewline ==
    fpc = "returned" =>
        \/ out = <<>>
        \/ /\ out[Len(out)] = "\n"
           /\ Len(out) >= 2 => out[Len(out) - 1] # "\n"


(* ------------------------------ C31 ------------------------------------ *)

\* the words of a text: its runs of runes that are no white space
RECURSIVE WordsOfText(_, _, _)
WordsOfText(s, cur, acc) ==
    IF s = <<>> THEN (IF cur = <<>> THEN acc ELSE Append(acc, cur))
    ELSE IF Head(s) \in {" ", "\n"}
         THEN WordsOfText(Tail(s), <<>>,
                          IF cur = <<>> THEN acc ELSE Append(acc, cur))
    ELSE WordsOfText(Tail(s), Append(cur, Head(s)), acc)

TextWords(s) == WordsOfText(s, <<>>, <<>>)

\* the values of tokens joined by one blank
RECURSIVE JoinValues(_)
JoinValues(a) ==
    IF a = <<>> THEN <<>>
    ELSE IF Len(a) = 1 THEN a[1].val
    ELSE a[1].val \o <<" ">> \o JoinValues(Tail(a))

\* a text that is one paragraph of words: every line holds a word, and no
\* line after a newline starts with a blank
SingleParagraph(s) ==
    /\ s # <<>>
    /\ \A k \in 1..Len(SplitLines(s, <<>>, <<>>)) :
           LET line == SplitLines(s, <<>>, <<>>)[k]
           IN  /\ Fields(line) # <<>>
               /\ k > 1 => line[1] # " "

\* C31: when formatText has returned for a text that is a single paragraph
\* of words, the tokens of its output, joined by blanks, hold the words of
\* the text: none lost, split, merged or moved.
C31_ReflowRoundTrip ==
    (fpc = "returned" /\ SingleParagraph(ftext)) =>
        TextWords(JoinValues(tokenize(out))) = TextWords(ftext)

\* three words were formatted with an indent for a width that holds two of
\* them: the output has a second line, which starts with the indent
C31_Witness ==
    /\ fpc = "returned" /\ SingleParagraph(ftext)
    /\ Len(TextWords(ftext)) = 3 /\ indent # <<>>
    /\ Len(OutLines) = 2 /\ Len(Fields(OutLines[1])) = 2
    /\ TextWords(JoinValues(tokenize(out))) = TextWords(ftext)


(* ------------------------------ C33 ------------------------------------ *)

\* C33: the tokens the lexer returns for a text never hold two paragraph
\* breaks in direct succession: a blank line gives one tParagraph and the
\* blank lines that follow it give no other.
C33_NoTwoParagraphTokens ==
    \A k \in 1..(Len(ftokens) - 1) :
        ~(ftokens[k].typ = "tParagraph" /\ ftokens[k + 1].typ = "tParagraph")

(* ------------------------------ C34 ------------------------------------ *)

\* a line without its leading blanks
RECURSIVE TrimLeft(_)
TrimLeft(line) ==
    IF line # <<>> /\ Head(line) = " " THEN TrimLeft(Tail(line)) ELSE line

\* the words of a line as word tokens
RECURSIVE AsWords(_)
AsWords(ws) ==
    IF ws = <<>> THEN <<>>
    ELSE <<[typ |-> "tWord", val |-> Head(ws)]>> \o AsWords(Tail(ws))

\* the word and verbatim tokens expected of the lines k, k+1, ... of a text:
\* a line after a newline that starts with a blank and holds a word is one
\* verbatim token, any other line gives its words
RECURSIVE ExpectedFrom(_, _)
ExpectedFrom(lines, k) ==
    IF k > Len(lines) THEN <<>>
    ELSE (IF k > 1 /\ lines[k] # <<>> /\ lines[k][1] = " "
             /\ Fields(lines[k]) # <<>>
          THEN <<[typ |-> "tVerbatim", val |-> TrimLeft(lines[k])]>>
          ELSE AsWords(Fields(lines[k])))
         \o ExpectedFrom(lines, k + 1)

\* the tokens of a sequence that are no paragraph breaks
RECURSIVE NoBreaks(_)
NoBreaks(a) ==
    IF a = <<>> THEN <<>>
    ELSE (IF Head(a).typ = "tParagraph" THEN <<>> ELSE <<Head(a)>>)
         \o NoBreaks(Tail(a))

C35_NoPanicNoFailedUnread ==
    /\ lx.err \in {"nil", "EOF"}
    /\ ferr = "nil"

\* a word, a blank line and a word were read to the end: wordState and
\* paragraphState each pushed a rune back
C35_Witness ==
    /\ fpc = "returned" /\ Len(ftokens) = 3 /\ ferr = "nil"
    /\ ftokens[1].typ = "tWord" /\ ftokens[2].typ = "tParagraph"
    /\ ftokens[3].typ = "tWord" /\ lx.err = "EOF"


(* ------------------------------ C36 ------------------------------------ *)

\* the invocations of setters of all passes, in the order of the passes
RECURSIVE CallsOfPasses(_)
CallsOfPasses(k) ==
    IF k > Len(passes) THEN <<>>
    ELSE passes[k].calls \o CallsOfPasses(k + 1)

\* the name a long-option token gives: what stands between "--" and "="
LongNameOf(t) ==
    IF IndexByte(t, "=") >= 0 THEN Slice(t, 2, IndexByte(t, "="))
    ELSE Slice(t, 2, Len(t))

\* C36: when ParseOptions has returned without error, every option token it
\* handled led to one invocation of a setter for each option it names -- one
\* for a long-option token, with a declared full name that the token
\* abbreviates, and one for each letter of a cluster, with the letter, in
\* the order of the letters -- and these are all the invocations, in the
\* order of the tokens.
C36_SetterOncePerOccurrence ==
    (pc = "done" /\ err = Nil) =>
        /\ calls = CallsOfPasses(1)
        /\ \A p \in 1..Len(passes) :
               LET t  == args[passes[p].at + 1]
                   cs == passes[p].calls
               IN  IF HasPrefix(t, DashDash)
                   THEN /\ Len(cs) = 1
                        /\ HasPrefix(cs[1].name, LongNameOf(t))
                        /\ \E k \in 1..Len(AllNames(options[cs[1].opt])) :
                               AllNames(options[cs[1].opt])[k] = cs[1].name
                   ELSE /\ Len(cs) = Len(t) - 1
                        /\ \A c \in 1..Len(cs) :
                               /\ cs[c].name = <<t[c + 1]>>
                               /\ hasShortString(options[cs[c].opt],
                                                 cs[c].name)


(* ------------------------------ C37 ------------------------------------ *)

ExactAndPrefix(name) ==
    /\ \E on \in Matching(options, name) : on[2] = name
    /\ \E on \in Matching(options, name) : on[2] # name

\* C38: an exact match has no priority: when ParseOptions has returned,
\* every long-option token it handled whose name is a declared long name and
\* also a proper prefix of another declared long name was reported as an
\* unrecognized option, and no setter was invoked for it.
C38_ExactNameIsAmbiguous ==
    pc = "done" =>
        \A p \in 1..Len(passes) :
            LET t == args[passes[p].at + 1]
            IN  (HasPrefix(t, DashDash) /\ ExactAndPrefix(LongNameOf(t))) =>
                    /\ passes[p].calls = <<>>
                    /\ passes[p].err = unrecognizedOptionError(t)
                    /\ err # Nil


(* ================= Run with the help options installed ================= *)

\* the longest argument list and the number of calls of Run
MaxHelpArgs == 2

MaxRuns == 2

\* the trees of TestParse with AddHelpOptionToAll applied: foo and version
\* get the option help/h; a command without Exec gets none
HelpTrees == {AddHelpOptionToAll(testRoot), AddHelpOptionToAll(twoRoot)}

HelpTokens == { <<"-", "h">>, <<"v", "e", "r">>, <<"1">> }

HelpLines == UNION {[1..k -> HelpTokens] : k \in 0..MaxHelpArgs}

\* the program has installed the help options and calls Run(root, args)
InitHelp ==
    /\ root \in HelpTrees
    /\ cmdline \in HelpLines
    /\ commands = <<>> /\ cmd = <<>> /\ pn = 0 /\ perr = Nil
    /\ ppc = "options" /\ levels = <<>> /\ execs = <<>> /\ rerr = Nil
    /\ OptionsIdle /\ FormatIdle /\ DocIdle /\ HelpIdle

\* Run has returned and the program calls Run(root, args) again: nothing
\* between two calls writes helpFlag
RunAgain ==
    /\ ppc = "exit" /\ Len(past) + 1 < MaxRuns
    /\ past' = Append(past, cmdline)
    /\ cmdline' \in HelpLines
    /\ commands' = <<>> /\ cmd' = <<>> /\ pn' = 0 /\ perr' = Nil
    /\ ppc' = "options" /\ levels' = <<>> /\ rerr' = Nil
    /\ UNCHANGED <<root, execs, helpFlag, docs>>
    /\ UNCHANGED <<ovars, fvars, dvars>>

NextHelp ==
    \/ ParseLevel
    \/ Descend
    \/ UnrecognizedCommand
    \/ NoSubcommand
    \/ NoArgument
    \/ RunParseError
    \/ RunNoExec
    \/ RunExec
    \/ RunAgain

SpecHelp == InitHelp /\ [][NextHelp]_vars

(* ------------------------------ C39 ------------------------------------ *)

\* a help option was parsed in the call of Run under way
HelpGiven ==
    \E j \in 1..Len(levels) : \E k \in 1..Len(levels[j].calls) :
        Node(root, levels[j].cmd).Options[levels[j].calls[k].opt].setter
            = "help"

\* C39: when Run calls the Exec that AddHelpOption installed for the
\* command it resolved, the documentation is printed instead of the
\* original Exec if and only if a help option was parsed in this call of
\* Run; a help option of an earlier call makes no difference.
C39_HelpOnlyInSameRun ==
    [][(/\ ppc = "returned" /\ ppc' = "exit" /\ perr = Nil
        /\ Wrapped(Node(root, commands[Len(commands)])))
       => ((docs' # docs) <=> HelpGiven)]_vars


(* ===================== UsageOptions and WriteDoc ======================= *)

\* Option.hasName
hasName(opt, name) ==
    IF name = <<>> THEN FALSE
    ELSE \/ name = opt.Name
         \/ \E k \in 1..Len(opt.Names) : opt.Names[k] = name

\* Option.AllShorts, each letter as a string of one letter
AllShorts(opt) ==
    SortStrings((IF opt.Short # NoShort THEN << <<opt.Short>> >> ELSE <<>>)
                \o [k \in 1..Len(opt.Shorts) |-> <<opt.Shorts[k]>>])

\* findOption(flags, name): the index of the first option that has the name
\* as a long name or as a short letter, 0 if there is none
findOption(flags, name) ==
    LET hits == {k \in 1..Len(flags) :
                    hasName(flags[k], name) \/ hasShortString(flags[k], name)}
    IN  IF hits = {} THEN 0 ELSE Min(hits)

\* the parameter type that Usage shows
ptype(opt) ==
    CASE opt.setter = "string" -> <<"s", "t", "r", "i", "n", "g">>
      [] opt.setter = "int" -> <<"i", "n", "t">>
      [] OTHER -> <<"p", "a", "r", "a", "m">>

\* the strings of a sequence one after the other
RECURSIVE Concat(_)
Concat(ss) == IF ss = <<>> THEN <<>> ELSE Head(ss) \o Concat(Tail(ss))

\* the long names as Usage shows them, the first preceded by ", " only if
\* short letters were shown
usageNames(opt, names, first) ==
    Concat([k \in 1..Len(names) |->
               (IF k > 1 \/ ~first THEN <<",", " ">> ELSE <<>>)
               \o <<"-", "-">> \o names[k]
               \o (IF ~opt.HasParam THEN <<>>
                   ELSE IF opt.OptionalParam
                        THEN <<"[", "=">> \o ptype(opt) \o <<"]">>
                        ELSE <<"=">> \o ptype(opt))])

\* Option.Usage() for an option without UsageInfo
Usage(opt) ==
    LET shorts == AllShorts(opt)
    IN  (IF shorts = <<>> THEN <<>>
         ELSE <<"-">> \o Concat(shorts)
              \o (IF ~opt.HasParam THEN <<>>
                  ELSE IF opt.OptionalParam
                       THEN <<" ", "[">> \o ptype(opt) \o <<"]">>
                       ELSE <<" ">> \o ptype(opt)))
        \o usageNames(opt, AllNames(opt), shorts = <<>>)
        \o (IF opt.Default # <<>>
            THEN <<" ", "(", "d", "e", "f", "a", "u", "l", "t", " ">>
                 \o opt.Default \o <<")">>
            ELSE <<>>)

\* the sort keys of UsageOptions: for every option its smallest short
\* letter or else its smallest long name
RECURSIVE usageKeys(_)
usageKeys(opts) ==
    IF opts = <<>> THEN <<>>
    ELSE (IF AllShorts(Head(opts)) # <<>>
          THEN <<AllShorts(Head(opts))[1]>>
          ELSE IF AllNames(Head(opts)) # <<>>
               THEN <<AllNames(Head(opts))[1]>>
               ELSE <<>>)
         \o usageKeys(Tail(opts))

\* UsageOptions(w, opts, indent1, indent2): the options found for the sorted
\* keys (0 where findOption fails and the function panics) and the text
\* written up to there.  The options have no Description, for which
\* formatText writes nothing.
UsageOptions(opts, indent1, indent2) ==
    LET names == SortStrings(usageKeys(opts))
        found == [k \in 1..Len(names) |-> findOption(opts, names[k])]
        fails == {k \in 1..Len(names) : found[k] = 0}
        upto  == IF fails = {} THEN Len(names) ELSE Min(fails) - 1
    IN  [listed |-> SubSeq(found, 1, upto),
         panic  |-> fails # {},
         text   |-> Concat([k \in 1..upto |->
                               indent1 \o Usage(opts[found[k]]) \o <<"\n">>])]

(* ---------------------------- WriteDoc --------------------------------- *)

docIndent == <<" ", " ", " ", " ">>

\* a command with the fields that WriteDoc shows
DocCommand(name, info, usage, description, opts, subs) ==
    MkCommand(name, opts, subs, FALSE) @@
        [Info |-> info, Usage |-> usage, Description |-> description]

\* findCommand(commands, name): the index of the first command of the name
findCommand(cmds, name) ==
    LET hits == {k \in 1..Len(cmds) : cmds[k].Name = name}
    IN  IF hits = {} THEN 0 ELSE Min(hits)

\* maxLen(strings)
maxLen(ss) ==
    IF ss = <<>> THEN 0
    ELSE CHOOSE m \in {Len(ss[k]) : k \in 1..Len(ss)} :
             \A k \in 1..Len(ss) : Len(ss[k]) <= m

\* the names of the subcommands that have one
RECURSIVE subNames(_)
subNames(subs) ==
    IF subs = <<>> THEN <<>>
    ELSE (IF Head(subs).Name # <<>> THEN <<Head(subs).Name>> ELSE <<>>)
         \o subNames(Tail(subs))

\* the blanks that %-*s adds to a string for the width w
Pad(str0, w) == str0 \o [k \in 1..(w - Len(str0)) |-> " "]

\* the lines of the section SUBCOMMANDS
subcommandLines(subs) ==
    LET names == SortStrings(subNames(subs))
    IN  Concat([k \in 1..Len(names) |->
            LET sub == subs[findCommand(subs, names[k])]
            IN  IF sub.Info # <<>>
                THEN docIndent \o Pad(names[k], maxLen(names) + 1)
                     \o <<"-", " ">> \o sub.Info \o <<"\n">>
                ELSE docIndent \o names[k] \o <<"\n">>])

\* the headers
hName == <<"N", "A", "M", "E">>
hUsage == <<"U", "S", "A", "G", "E">>
hDescription == <<"D", "E", "S", "C", "R", "I", "P", "T", "I", "O", "N">>
hOptions == <<"O", "P", "T", "I", "O", "N", "S">>
hSubcommands == <<"S", "U", "B", "C", "O", "M", "M", "A", "N", "D", "S">>

\* the empty line written before a section that is not the first
separator(k) == IF k > 0 THEN <<"\n">> ELSE <<>>

\* the section with the header h starts after the separator
Section(h) == [name |-> h, at |-> Len(out \o separator(di)) + 1]

\* the inputs: options for the section OPTIONS, among them one with the
\* long name f and one with the short letter f, subcommands, and
\* descriptions with a paragraph break, a verbatim line, blank lines at the
\* end and nothing but a blank
uFlag == BoolOption(flag, "f", FALSE)
uAll == BoolOption(all, "a", FALSE)
uF == StringOption(<<"f">>, NoShort, <<>>)
uStr == StringOption(str, NoShort, <<"1">>)
uNone == BoolOption(<<>>, NoShort, FALSE)

UsageSets ==
    { <<>>, <<uFlag, uAll>>, <<uStr, uAll>>, <<uF, uFlag>>, <<uFlag, uF>>,
      <<uNone, uAll>> }

DocSubs ==
    { <<>>,
      <<DocCommand(version, <<"i">>, <<>>, <<>>, <<>>, <<>>),
        DocCommand(dir, <<>>, <<>>, <<>>, <<>>, <<>>)>> }

Descriptions ==
    { <<>>, <<"a">>, <<"a", "\n", "\n", "a">>, <<"a", "\n", " ", "a">>,
      <<"a", "\n", "\n">>, <<" ">> }

DocCommands ==
    { DocCommand(nm, info, us, de, opts, subs) :
        nm \in {<<>>, foo}, info \in {<<>>, <<"i">>}, us \in {<<>>, <<"u">>},
        de \in Descriptions, opts \in UsageSets, subs \in DocSubs }

\* cmd.WriteDoc(w) was called: i := 0
InitDoc ==
    /\ dcmd \in DocCommands
    /\ dpc = "name" /\ di = 0 /\ sections = <<>> /\ listed = <<>>
    /\ OptionsIdle /\ ParseIdle /\ FormatIdle /\ HelpIdle

\* the section NAME (lines 96-116)
DocName ==
    /\ dpc = "name"
    /\ IF dcmd.Name # <<>> \/ dcmd.Info # <<>>
       THEN /\ out' = out \o hName \o <<"\n">> \o
                      (IF dcmd.Name # <<>> /\ dcmd.Info # <<>>
                       THEN docIndent \o dcmd.Name \o <<" ", "-", " ">>
                            \o dcmd.Info \o <<"\n">>
                       ELSE IF dcmd.Name # <<>>
                       THEN docIndent \o <<" ">> \o dcmd.Name \o <<"\n">>
                       ELSE docIndent \o <<" ">> \o dcmd.Info \o <<"\n">>)
            /\ di' = di + 1
            /\ sections' = Append(sections, [name |-> hName, at |-> 1])
       ELSE UNCHANGED <<out, di, sections>>
    /\ dpc' = "usage"
    /\ UNCHANGED <<dcmd, listed, ftext, fwidth, lineWidth, indent, lx, column,
                   fpc, ferr, ftokens, verbatims>>
    /\ UNCHANGED <<ovars, pvars, hvars>>

\* the section USAGE (lines 117-136)
DocUsage ==
    /\ dpc = "usage"
    /\ IF dcmd.Usage # <<>>
       THEN /\ out' = out \o separator(di) \o hUsage \o <<"\n">>
                      \o docIndent \o <<" ">> \o dcmd.Usage \o <<"\n">>
            /\ di' = di + 1
            /\ sections' = Append(sections, Section(hUsage))
       ELSE UNCHANGED <<out, di, sections>>
    /\ dpc' = "description"
    /\ UNCHANGED <<dcmd, listed, ftext, fwidth, lineWidth, indent, lx, column,
                   fpc, ferr, ftokens, verbatims>>
    /\ UNCHANGED <<ovars, pvars, hvars>>

\* the section DESCRIPTION up to the call
\* formatText(w, cmd.Description, 80, indent) (lines 137-152), which the
\* actions of formatText carry out
DocDescription ==
    /\ dpc = "description"
    /\ IF dcmd.Description # <<>>
       THEN /\ out' = out \o separator(di) \o hDescription \o <<"\n">>
            /\ di' = di + 1
            /\ sections' = Append(sections, Section(hDescription))
            /\ ftext' = dcmd.Description /\ fwidth' = 80 /\ lineWidth' = 80
            /\ indent' = docIndent /\ fpc' = "called"
            /\ dpc' = "formatText"
       ELSE /\ dpc' = "options"
            /\ UNCHANGED <<out, di, sections, ftext, fwidth, lineWidth,
                           indent, fpc>>
    /\ UNCHANGED <<dcmd, listed, lx, column, ferr, ftokens, verbatims>>
    /\ UNCHANGED <<ovars, pvars, hvars>>

\* the section OPTIONS (lines 158-177), after formatText has returned if it
\* was called
DocOptions ==
    /\ dpc = "options" \/ (dpc = "formatText" /\ fpc = "returned")
    /\ IF Len(dcmd.Options) > 0
       THEN LET u == UsageOptions(dcmd.Options, docIndent, docIndent)
            IN  /\ out' = out \o separator(di) \o hOptions \o <<"\n">>
                          \o u.text
                /\ di' = di + 1
                /\ sections' = Append(sections, Section(hOptions))
                /\ listed' = u.listed
                /\ dpc' = IF u.panic THEN "panic" ELSE "subcommands"
       ELSE /\ dpc' = "subcommands"
            /\ UNCHANGED <<out, di, sections, listed>>
    /\ UNCHANGED <<dcmd, ftext, fwidth, lineWidth, indent, lx, column, fpc,
                   ferr, ftokens, verbatims>>
    /\ UNCHANGED <<ovars, pvars, hvars>>

\* the section SUBCOMMANDS (lines 178-217)
DocSubcommands ==
    /\ dpc = "subcommands"
    /\ IF Len(dcmd.Subcommands) > 0
       THEN /\ out' = out \o separator(di) \o hSubcommands \o <<"\n">>
                      \o subcommandLines(dcmd.Subcommands)
            /\ di' = di + 1
            /\ sections' = Append(sections, Section(hSubcommands))
       ELSE UNCHANGED <<out, di, sections>>
    /\ dpc' = "end"
    /\ UNCHANGED <<dcmd, listed, ftext, fwidth, lineWidth, indent, lx, column,
                   fpc, ferr, ftokens, verbatims>>
    /\ UNCHANGED <<ovars, pvars, hvars>>

\* the empty line at the end and the return (lines 218-225)
DocEnd ==
    /\ dpc = "end"
    /\ out' = out \o separator(di)
    /\ dpc' = "done"
    /\ UNCHANGED <<dcmd, di, sections, listed, ftext, fwidth, lineWidth,
                   indent, lx, column, fpc, ferr, ftokens, verbatims>>
    /\ UNCHANGED <<ovars, pvars, hvars>>

NextDoc ==
    \/ DocName
    \/ DocUsage
    \/ DocDescription
    \/ FormatEnter
    \/ FormatReturn
    \/ FormatParagraph
    \/ FormatVerbatim
    \/ FormatWord
    \/ DocOptions
    \/ DocSubcommands
    \/ DocEnd

SpecDoc == InitDoc /\ [][NextDoc]_vars


(* ------------------------------ C32 ------------------------------------ *)

FixedOrder == <<hName, hUsage, hDescription, hOptions, hSubcommands>>

Rank(h) == CHOOSE k \in 1..Len(FixedOrder) : FixedOrder[k] = h

Emitted(h) == \E k \in 1..Len(sections) : sections[k].name = h

\* C32: when WriteDoc has returned, the sections written are in the order
\* NAME, USAGE, DESCRIPTION, OPTIONS, SUBCOMMANDS, a section is written if
\* and only if its field is not empty, every header stands on a line of its
\* own, and before every section but the first there is exactly one empty
\* line.
C32_SectionsInOrderSeparated ==
    dpc = "done" =>
        /\ \A k \in 1..(Len(sections) - 1) :
               Rank(sections[k].name) < Rank(sections[k + 1].name)
        /\ Emitted(hName) <=> (dcmd.Name # <<>> \/ dcmd.Info # <<>>)
        /\ Emitted(hUsage) <=> dcmd.Usage # <<>>
        /\ Emitted(hDescription) <=> dcmd.Description # <<>>
        /\ Emitted(hOptions) <=> Len(dcmd.Options) > 0
        /\ Emitted(hSubcommands) <=> Len(dcmd.Subcommands) > 0
        /\ \A k \in 1..Len(sections) :
               LET a == sections[k].at
                   h == sections[k].name
               IN  /\ SubSeq(out, a, a + Len(h)) = h \o <<"\n">>
                   /\ k > 1 => /\ out[a - 1] = "\n"
                               /\ out[a - 2] = "\n"
                               /\ out[a - 3] # "\n"

(* ------------------------------ C40 ------------------------------------ *)

\* the key of an option: its smallest short letter, otherwise its smallest
\* long name, otherwise nothing
UsageKey(opt) ==
    IF AllShorts(opt) # <<>> THEN AllShorts(opt)[1]
    ELSE IF AllNames(opt) # <<>> THEN AllNames(opt)[1]
    ELSE <<>>

\* C40: when UsageOptions has run, it has not panicked, every option with
\* a long name or a short letter is listed exactly once, no other option is
\* listed, and the options listed are in ascending order of their keys.
C40_EveryOptionListedOnce ==
    (dpc \in {"subcommands", "end", "done", "panic"}
     /\ Len(dcmd.Options) > 0) =>
        /\ dpc # "panic"
        /\ \A o \in 1..Len(dcmd.Options) :
               UsageKey(dcmd.Options[o]) # <<>> =>
                   Cardinality({k \in 1..Len(listed) : listed[k] = o}) = 1
        /\ \A k \in 1..Len(listed) :
               UsageKey(dcmd.Options[listed[k]]) # <<>>
        /\ \A k \in 1..(Len(listed) - 1) :
               ~StrLess(UsageKey(dcmd.Options[listed[k + 1]]),
                        UsageKey(dcmd.Options[listed[k]]))

====
